---- MODULE Spec2Model ----
(***************************************************************************)
(* A model of the work-partitioning core of openquake.baselib.general:     *)
(* WeightedSequence, block_splitter, split_in_slices / gen_slices /        *)
(* split_in_blocks and AccumDict.                                          *)
(*                                                                         *)
(* Each component has variables of its own and a specification of its own  *)
(* (Spec for block_splitter, SpecWS, SpecAD, SpecSL); a specification      *)
(* leaves the other components' variables at their initial values.        *)
(***************************************************************************)
EXTENDS Integers, Sequences, FiniteSets, TLC

\* ------------------------------------------------------------------ bounds
\* Longest input sequence given to block_splitter.
MaxLen == 3
\* Largest weight of one item.
MaxW == 2
\* Largest max_weight given to block_splitter.
MaxMW == 3

\* Longest WeightedSequence the container operations build.
MaxWSLen == 3
\* Most container operations applied to one WeightedSequence.
MaxWSOps == 3

\* Largest number (or stop) given to split_in_slices and gen_slices.
MaxN == 6
\* Largest num_slices (or blocksize) given to them.
MaxK == 4

\* Most AccumDict operations applied in one run.
MaxADOps == 3

\* Most sites in a site collection.
MaxSites == 2
\* Most sources in one list given to a SourceFilter.
MaxSrc == 2
\* Largest integration distance, in degrees of arc.
MaxDist == 2

\* The keys a key function may return; "Unspecified" is what nokey returns.
Keys == {"Unspecified", "k1", "k2"}
\* The weights a weight function may return (a negative weight is an error).
Weights == (-1)..MaxW

\* ------------------------------------------------------------------- state
VARIABLES
    items,       \* the input sequence: items[i] = [w |-> weight(item), k |-> key(item)]
    max_weight,  \* the max_weight argument
    pc,          \* "call" | "created" | "loop" | "done" | "error"
    pos,         \* index of the next item the for loop reads
    ws,          \* the running WeightedSequence; its _seq holds item indices
    prev_key,    \* prev_key
    out          \* the chunks yielded so far, in order

varsBS == <<items, max_weight, pc, pos, ws, prev_key, out>>

VARIABLES
    wsx,     \* a WeightedSequence the caller works on
    wsops,   \* how many operations were applied to it
    ws_cmp   \* the last comparison made: the other operand and the two answers

varsWS == <<wsx, wsops, ws_cmp>>

VARIABLES
    sl_fn,      \* "split_in_slices" | "split_in_blocks" | "gen_slices"
    sl_lo,      \* the start argument of gen_slices (0 for the other two)
    sl_hi,      \* number (split_in_slices), sequence (split_in_blocks), stop (gen_slices)
    sl_k,       \* num_slices, hint; for gen_slices the blocksize argument
    blocksize,  \* blocksize
    start,      \* start
    slices,     \* the slices appended or yielded so far, [start, stop] each
    sl_pc       \* "call" | "loop" | "done" | "error"

varsSL == <<sl_fn, sl_lo, sl_hi, sl_k, blocksize, start, slices, sl_pc>>

VARIABLES
    acc,      \* the AccumDict a: [d |-> its dict, accum |-> its template]
    other,    \* the right operand b: a mapping [kind "map", d] or a scalar [kind "scalar", s]
    res,      \* the AccumDict the last operator returned, if it returned one
    heap,     \* the list objects: heap[r] is the contents of list r
    ad_op,    \* the last operation, [name, key]
    ad_err,   \* the exception the last operation raised, "" for none
    ad_prev,  \* acc and heap as they were before the last operation
    ad_n      \* how many operations were applied

varsAD == <<acc, other, res, heap, ad_op, ad_err, ad_prev, ad_n>>

VARIABLES
    sf,           \* the SourceFilter the queries run on: its attributes
    sf_orig,      \* the SourceFilter as __init__ left it
    sf_unpickled, \* whether sf came out of a pickle round trip
    sources,      \* the list of sources: sources[i] = [lon, lat], source_id i
    sf_fail,      \* the method of the last source that raises, "none" for none
    nsites,       \* nsites[i]: the nsites attribute of source i, -1 when unset
    qs,           \* qs[q]: the q-th call of sf(sources, sites) and its generator
    sf_box        \* the last direct call sf.get_affected_box(src) and its outcome

varsSF == <<sf, sf_orig, sf_unpickled, sources, sf_fail, nsites, qs, sf_box>>

VARIABLES
    fa_indices,  \* fast_agg: the argument indices, a list of bucket numbers
    fa_values,   \* the argument values: None, or an array of rows
    fa_pc,       \* "call", then "loop" over multi_index, "done" or "error"
    fa_mi,       \* the position of the loop over multi_index(shp, axis)
    fa_res       \* the array being filled, returned at "done"

varsFA == <<fa_indices, fa_values, fa_pc, fa_mi, fa_res>>

VARIABLES
    sb_fn,     \* the function called: "groupby" or "split_in_blocks"
    sb_seq,    \* the caller's list, as it is now: sb_seq[i] = [w, k]
    sb_orig,   \* the caller's list as it was when passed
    sb_hint,   \* the argument hint of split_in_blocks
    sb_key,    \* whether split_in_blocks was given a key (else key is nokey)
    sb_pc,     \* "call", then "returned", "error" for a failed assert
    sb_res,    \* what the call returned: a list, a dict or a generator
    sb_sorted, \* the local items of split_in_blocks: positions of sb_seq
    sb_passes  \* what each `for x in result` run by the caller produced, in
               \* turn; the first iteration of a generator is in out instead

varsSB == <<sb_fn, sb_seq, sb_orig, sb_hint, sb_key, sb_pc, sb_res, sb_sorted,
            sb_passes>>

RECURSIVE SumSeq(_)
\* sum(s) for a sequence of numbers
SumSeq(s) == IF s = <<>> THEN 0 ELSE Head(s) + SumSeq(Tail(s))

\* ------------------------------------------------------- WeightedSequence
\* A WeightedSequence is its two attributes, _seq and weight.

\* WeightedSequence.__init__ with seq=(): self._seq = [], self.weight = 0
WSEmpty == [seq |-> <<>>, weight |-> 0]

\* list.insert(i, x): a position past the end appends, a negative one counts
\* from the end and is clipped to the front
ListInsert(s, i, x) ==
    LET n == Len(s)
        j == IF i < 0 THEN (IF n + i < 0 THEN 0 ELSE n + i)
             ELSE (IF i > n THEN n ELSE i)
    IN  SubSeq(s, 1, j) \o <<x>> \o SubSeq(s, j + 1, n)

\* WeightedSequence.insert(i, (item, weight)) with the weight never added
WSInsertNoWeight(self, i, item, w) ==
    [self EXCEPT !.seq = ListInsert(self.seq, i, item)]

\* WeightedSequence.insert(i, (item, weight))
WSInsert(self, i, item, w) ==
    [seq |-> ListInsert(self.seq, i, item), weight |-> self.weight + w]

\* an append that puts the item at the front of the sequence
WSAppendFront(self, item, w) == WSInsert(self, 0, item, w)

\* MutableSequence.append(value): self.insert(len(self), value)
WSAppend(self, item, w) == WSInsert(self, Len(self.seq), item, w)

\* WeightedSequence([(item, w)]): __init__ extends the empty sequence
WSSingle(item, w) == WSAppend(WSEmpty, item, w)

\* a truth test that takes every sequence, the empty one too, for true
WSTruthyAlways(self) == TRUE

\* `if ws`: a MutableSequence is true when its __len__ is not 0
WSTruthy(self) == Len(self.seq) > 0

\* ------------------------------------------------------------ block_splitter

\* a new chunk for every item
StartsNewChunkAlways(wsw, w, k, pk, mw) == TRUE

\* the condition of the elif that starts a new chunk, with the weight test lost
StartsNewChunkKeyOnly(wsw, w, k, pk, mw) == k # pk

\* the condition of the elif that starts a new chunk, with the key test lost
StartsNewChunkWeightOnly(wsw, w, k, pk, mw) == wsw + w > mw

\* the test for a negative weight, letting the weight -1 through
NegativeWeightBelowMinusOne(w) == w < -1

\* if w < 0:  # error
NegativeWeight(w) == w < 0

\* ws.weight + w > max_weight or k != prev_key
StartsNewChunk(wsw, w, k, pk, mw) == wsw + w > mw \/ k # pk

InputSeqs == UNION {[1..n -> [w : Weights, k : Keys]] : n \in 0..MaxLen}

InitBS ==
    /\ items \in InputSeqs
    /\ max_weight \in 0..MaxMW
    /\ pc = "call"
    /\ pos = 1
    /\ ws = WSEmpty
    /\ prev_key = "Unspecified"
    /\ out = <<>>

\* The call: block_splitter is a generator function, so calling it runs
\* nothing of its body and returns the generator.
BSCall ==
    /\ pc = "call"
    /\ pc' = "created"
    /\ UNCHANGED <<items, max_weight, pos, ws, prev_key, out>>
    /\ UNCHANGED <<varsWS, varsSL, varsAD, varsSF, varsFA, varsSB>>

\* The first next() enters the body: the max_weight check and the two
\* assignments before the loop.
BSEnter ==
    /\ pc = "created"
    /\ IF max_weight <= 0
       THEN pc' = "error" /\ UNCHANGED <<ws, prev_key>>
       ELSE pc' = "loop" /\ ws' = WSEmpty /\ prev_key' = "Unspecified"
    /\ UNCHANGED <<items, max_weight, pos, out>>
    /\ UNCHANGED <<varsWS, varsSL, varsAD, varsSF, varsFA, varsSB>>

\* One turn of the for loop.
BSItem ==
    /\ pc = "loop"
    /\ pos <= Len(items)
    /\ LET w == items[pos].w
           k == items[pos].k
       IN  IF NegativeWeight(w)
           THEN /\ pc' = "error"
                /\ UNCHANGED <<ws, prev_key, out, pos>>
           ELSE /\ pc' = "loop"
                /\ pos' = pos + 1
                /\ prev_key' = k
                /\ IF StartsNewChunk(ws.weight, w, k, prev_key, max_weight)
                   THEN /\ ws' = WSSingle(pos, w)
                        /\ out' = IF WSTruthy(ws) THEN Append(out, ws) ELSE out
                   ELSE IF w > 0
                   THEN /\ ws' = WSAppend(ws, pos, w)
                        /\ out' = out
                   ELSE UNCHANGED <<ws, out>>
    /\ UNCHANGED <<items, max_weight>>
    /\ UNCHANGED <<varsWS, varsSL, varsAD, varsSF, varsFA, varsSB>>

\* The input is exhausted: the last chunk is yielded if it is not empty.
BSEnd ==
    /\ pc = "loop"
    /\ pos > Len(items)
    /\ pc' = "done"
    /\ out' = IF WSTruthy(ws) THEN Append(out, ws) ELSE out
    /\ UNCHANGED <<items, max_weight, pos, ws, prev_key>>
    /\ UNCHANGED <<varsWS, varsSL, varsAD, varsSF, varsFA, varsSB>>

NextBS == BSCall \/ BSEnter \/ BSItem \/ BSEnd

\* ------------------------------------------- block_splitter: the properties
\* the items of a chunk, as the set of their positions in the input
ChunkItems(c) == {c.seq[j] : j \in 1..Len(c.seq)}

\* the sum of weight(item) over the items a chunk holds
ChunkTotal(c) == SumSeq([j \in 1..Len(c.seq) |-> items[c.seq[j]].w])

\* the chunks emitted so far, as a set of positions in out
Emitted == 1..Len(out)

\* C1: every emitted chunk has total weight <= max_weight, unless it holds
\* exactly one item and that item's own weight exceeds max_weight.
C1_BoundRespected ==
    \A n \in Emitted :
        \/ ChunkTotal(out[n]) <= max_weight
        \/ Len(out[n].seq) = 1 /\ items[out[n].seq[1]].w > max_weight

\* a finished run that emitted both a full chunk of several items and a
\* singleton chunk heavier than max_weight
C1_Witness ==
    /\ pc = "done"
    /\ \E n \in Emitted : Len(out[n].seq) >= 2 /\ ChunkTotal(out[n]) = max_weight
    /\ \E n \in Emitted : Len(out[n].seq) = 1 /\ ChunkTotal(out[n]) > max_weight

\* C2: in every emitted chunk all items have the same key.
C2_KeyHomogeneity ==
    \A n \in Emitted :
        \A i, j \in ChunkItems(out[n]) : items[i].k = items[j].k

\* a finished run with chunks of two different keys, one of them of
\* several items
C2_Witness ==
    /\ pc = "done"
    /\ \E n \in Emitted : Len(out[n].seq) >= 2
    /\ \E m, n \in Emitted : items[out[m].seq[1]].k # items[out[n].seq[1]].k

\* C3: once the generator is exhausted without error, the weight recorded on
\* each chunk is the sum of the weights of its items, and the chunk weights
\* add up to the total weight of the input.
C3_WeightConservation ==
    pc = "done" =>
        /\ \A n \in Emitted : out[n].weight = ChunkTotal(out[n])
        /\ SumSeq([n \in Emitted |-> out[n].weight])
             = SumSeq([i \in 1..Len(items) |-> items[i].w])

\* a finished run of several chunks in which a zero-weight item was dropped
C3_Witness ==
    /\ pc = "done"
    /\ Len(out) >= 2
    /\ \E i \in 1..Len(items) :
          items[i].w = 0 /\ \A n \in Emitted : i \notin ChunkItems(out[n])
    /\ \E n \in Emitted : out[n].weight >= 2

\* C4: no emitted chunk is empty.
C4_NeverEmpty == \A n \in Emitted : Len(out[n].seq) > 0

\* a finished run whose first item changed the key while the running chunk
\* was still empty, and that emitted chunks
C4_Witness ==
    /\ pc = "done"
    /\ Len(items) >= 1
    /\ items[1].k # "Unspecified"
    /\ Len(out) >= 1

\* C17: block_splitter called with max_weight <= 0 fails at the call itself:
\* once the call is over the error has been raised, before the result is
\* iterated and with no input item read.
C17_ErrorAtCall ==
    (max_weight <= 0 /\ pc # "call") => (pc = "error" /\ pos = 1)

\* C18: block_splitter fails with a value error when it reaches an item of
\* negative weight, whatever its position and key: the items already passed
\* have weight >= 0, a run that ended normally met no negative weight, a run
\* that failed after it was entered stands at a negative weight, and every
\* emitted chunk holds only items that precede the position reached.
C18_NegativeWeight ==
    /\ pc \in {"loop", "done"} => \A i \in 1..(pos - 1) : items[i].w >= 0
    /\ pc = "done" => pos = Len(items) + 1
    /\ (pc = "error" /\ max_weight > 0) =>
          /\ pos \in 1..Len(items)
          /\ items[pos].w < 0
    /\ \A n \in Emitted : \A i \in ChunkItems(out[n]) : i < pos

\* a run that failed at a negative weight in the last position, of the key
\* of the item before it, after a chunk had been emitted
C18_Witness ==
    /\ pc = "error"
    /\ max_weight > 0
    /\ pos = Len(items) /\ pos >= 3
    /\ items[pos].k = items[pos - 1].k
    /\ Len(out) >= 1

\* the key item i is compared with: the key of the item before it
KeyBefore(i) == IF i = 1 THEN "Unspecified" ELSE items[i - 1].k

\* item i is in an emitted chunk
Taken(i) == \E n \in Emitted : i \in ChunkItems(out[n])

C27_NewChunkOnlyWhenNeeded ==
    \A n \in 1..(Len(out) - 1) :
        LET first == items[out[n + 1].seq[1]]
        IN  \/ \A i \in ChunkItems(out[n]) : items[i].k # first.k
            \/ ChunkTotal(out[n]) + first.w > max_weight

\* a finished run with a chunk of several items followed by a chunk of the
\* same key
C27_Witness ==
    /\ pc = "done"
    /\ \E n \in 1..(Len(out) - 1) :
          /\ Len(out[n].seq) >= 2
          /\ items[out[n].seq[1]].k = items[out[n + 1].seq[1]].k

\* the positions of the items of the emitted chunks, chunk after chunk
RECURSIVE Concat(_)
Concat(chunks) ==
    IF chunks = <<>> THEN <<>> ELSE Head(chunks).seq \o Concat(Tail(chunks))

\* C28: once the input is consumed without error, the emitted chunks put end
\* to end hold the items in input order, no item twice and every item of
\* positive weight once.
C28_OrderPreserved ==
    pc = "done" =>
        LET c == Concat(out)
        IN  /\ \A a, b \in 1..Len(c) : a < b => c[a] < c[b]
            /\ \A i \in 1..Len(items) :
                  items[i].w > 0 => \E a \in 1..Len(c) : c[a] = i

\* a finished run of one chunk of two items that dropped an item of weight 0
\* in between
C28_Witness ==
    /\ pc = "done"
    /\ Len(out) = 1
    /\ out[1].seq = <<1, 3>>
    /\ items[2].w = 0

\* ------------------------------------------- WeightedSequence as a container
\* The items a caller stores: an item is told apart by its name and has the
\* weight w, which is the weight the caller pairs it with.
WSItems == [name : {"a", "b"}, w : Weights]

\* sequences of at most n items
ItemSeqs(n) == UNION {[1..m -> WSItems] : m \in 0..n}

\* sequences of at most n items of weight 1
UnitSeqs(n) == {its \in ItemSeqs(n) : \A i \in 1..Len(its) : its[i].w = 1}

RECURSIVE WSExtend(_, _)
\* MutableSequence.extend(pairs): append each (item, weight) in turn
WSExtend(w, its) ==
    IF its = <<>> THEN w
    ELSE WSExtend(WSAppend(w, Head(its), Head(its).w), Tail(its))

\* WeightedSequence(seq): __init__ extends the empty sequence by the pairs
WSFromPairs(its) == WSExtend(WSEmpty, its)

\* WeightedSequence.__setitem__(i, v) for an index (0-based)
WSSetItem(w, i, v) == [w EXCEPT !.seq = [w.seq EXCEPT ![i + 1] = v]]

\* WeightedSequence.__setitem__(slice(i, j), vs)
WSSetSlice(w, i, j, vs) ==
    [w EXCEPT !.seq = SubSeq(w.seq, 1, i) \o vs \o SubSeq(w.seq, j + 1, Len(w.seq))]

\* WeightedSequence.__delitem__(i) for an index (0-based)
WSDelItem(w, i) ==
    [w EXCEPT !.seq = SubSeq(w.seq, 1, i) \o SubSeq(w.seq, i + 2, Len(w.seq))]

\* WeightedSequence.__delitem__(slice(i, j))
WSDelSlice(w, i, j) ==
    [w EXCEPT !.seq = SubSeq(w.seq, 1, i) \o SubSeq(w.seq, j + 1, Len(w.seq))]

\* WeightedSequence.__add__(other)
WSAdd(self, o) == [seq |-> self.seq \o o.seq, weight |-> self.weight + o.weight]

RECURSIVE WSSum(_, _)
\* sum(ws_list, start): start + ws_list[0] + ws_list[1] + ...; first is start
WSSum(wsl, first) ==
    IF wsl = <<>> THEN first ELSE WSSum(Tail(wsl), WSAdd(first, Head(wsl)))

\* WeightedSequence.merge(ws_list)
WSMerge(wsl) == WSSum(wsl, WSEmpty)

\* min(a, b)
Min(a, b) == IF a < b THEN a ELSE b

\* zip(self, other): the pairs of items at the same position, up to the end
\* of the shorter sequence
Zip(a, b) == [i \in 1..Min(Len(a), Len(b)) |-> <<a[i], b[i]>>]

\* WeightedSequence.__eq__(other): the items are compared, not their weights
WSEq(self, o) ==
    LET z == Zip(self.seq, o.seq)
    IN  \A i \in 1..Len(z) : z[i][1].name = z[i][2].name

\* WeightedSequence.__lt__(other)
WSLt(self, o) == self.weight < o.weight

\* no comparison made yet
NoCmp == [made |-> FALSE, o |-> WSEmpty, eq |-> FALSE, lt |-> FALSE]

InitWS ==
    /\ wsx \in {WSFromPairs(its) : its \in ItemSeqs(2)}
    /\ wsops = 0
    /\ ws_cmp = NoCmp

\* ws.append((item, weight))
WSOpAppend ==
    /\ wsops < MaxWSOps /\ Len(wsx.seq) < MaxWSLen
    /\ \E it \in WSItems : wsx' = WSAppend(wsx, it, it.w)
    /\ wsops' = wsops + 1
    /\ UNCHANGED <<ws_cmp, varsBS, varsSL, varsAD, varsSF, varsFA, varsSB>>

\* ws.insert(i, (item, weight))
WSOpInsert ==
    /\ wsops < MaxWSOps /\ Len(wsx.seq) < MaxWSLen
    /\ \E it \in WSItems, i \in 0..Len(wsx.seq) : wsx' = WSInsert(wsx, i, it, it.w)
    /\ wsops' = wsops + 1
    /\ UNCHANGED <<ws_cmp, varsBS, varsSL, varsAD, varsSF, varsFA, varsSB>>

\* ws[i] = item
WSOpSetItem ==
    /\ wsops < MaxWSOps
    /\ \E it \in WSItems, i \in 0..(Len(wsx.seq) - 1) : wsx' = WSSetItem(wsx, i, it)
    /\ wsops' = wsops + 1
    /\ UNCHANGED <<ws_cmp, varsBS, varsSL, varsAD, varsSF, varsFA, varsSB>>

\* ws[i:j] = [item, ...]
WSOpSetSlice ==
    /\ wsops < MaxWSOps
    /\ \E i \in 0..Len(wsx.seq) : \E j \in i..Len(wsx.seq) : \E vs \in ItemSeqs(1) :
          /\ Len(wsx.seq) - (j - i) + Len(vs) <= MaxWSLen
          /\ wsx' = WSSetSlice(wsx, i, j, vs)
    /\ wsops' = wsops + 1
    /\ UNCHANGED <<ws_cmp, varsBS, varsSL, varsAD, varsSF, varsFA, varsSB>>

\* del ws[i]
WSOpDelItem ==
    /\ wsops < MaxWSOps
    /\ \E i \in 0..(Len(wsx.seq) - 1) : wsx' = WSDelItem(wsx, i)
    /\ wsops' = wsops + 1
    /\ UNCHANGED <<ws_cmp, varsBS, varsSL, varsAD, varsSF, varsFA, varsSB>>

\* del ws[i:j]
WSOpDelSlice ==
    /\ wsops < MaxWSOps
    /\ \E i \in 0..Len(wsx.seq) : \E j \in i..Len(wsx.seq) : wsx' = WSDelSlice(wsx, i, j)
    /\ wsops' = wsops + 1
    /\ UNCHANGED <<ws_cmp, varsBS, varsSL, varsAD, varsSF, varsFA, varsSB>>

\* ws = ws + other
WSOpAdd ==
    /\ wsops < MaxWSOps
    /\ \E its \in ItemSeqs(1) :
          /\ Len(wsx.seq) + Len(its) <= MaxWSLen
          /\ wsx' = WSAdd(wsx, WSFromPairs(its))
    /\ wsops' = wsops + 1
    /\ UNCHANGED <<ws_cmp, varsBS, varsSL, varsAD, varsSF, varsFA, varsSB>>

\* ws = WeightedSequence.merge([ws, other1, other2])
WSOpMerge ==
    /\ wsops < MaxWSOps
    /\ \E a \in ItemSeqs(1), b \in ItemSeqs(1) :
          /\ Len(wsx.seq) + Len(a) + Len(b) <= MaxWSLen
          /\ wsx' = WSMerge(<<wsx, WSFromPairs(a), WSFromPairs(b)>>)
    /\ wsops' = wsops + 1
    /\ UNCHANGED <<ws_cmp, varsBS, varsSL, varsAD, varsSF, varsFA, varsSB>>

\* ws == other and ws < other, for another WeightedSequence
WSOpCompare ==
    /\ wsops < MaxWSOps
    /\ \E its \in UnitSeqs(2) :
          LET o == WSFromPairs(its)
          IN  ws_cmp' = [made |-> TRUE, o |-> o,
                         eq |-> WSEq(wsx, o), lt |-> WSLt(wsx, o)]
    /\ wsops' = wsops + 1
    /\ UNCHANGED <<wsx, varsBS, varsSL, varsAD, varsSF, varsFA, varsSB>>

NextWS ==
    \/ WSOpAppend \/ WSOpInsert \/ WSOpSetItem \/ WSOpSetSlice
    \/ WSOpDelItem \/ WSOpDelSlice \/ WSOpAdd \/ WSOpMerge \/ WSOpCompare

\* the sum of the weights of the items a WeightedSequence holds
WSItemsWeight(w) == SumSeq([j \in 1..Len(w.seq) |-> w.seq[j].w])

\* C5: after any sequence of container operations the weight attribute of a
\* WeightedSequence is the sum of the weights of the items it holds.
C5_WeightIsSum == wsx.weight = WSItemsWeight(wsx)

\* C19: appending or inserting a pair of negative weight fails and leaves the
\* sequence as it was, so that the weight of a WeightedSequence is never
\* negative.
C19_WeightNonNegative == wsx.weight >= 0

\* C30: two WeightedSequences compare equal exactly when they have the same
\* length and equal items at every position, whatever their weights, and one
\* is less than the other exactly when its weight is smaller.
C30_Comparison ==
    [][WSOpCompare =>
          /\ ws_cmp'.eq <=>
                /\ Len(wsx.seq) = Len(ws_cmp'.o.seq)
                /\ \A i \in 1..Len(wsx.seq) :
                      wsx.seq[i].name = ws_cmp'.o.seq[i].name
          /\ ws_cmp'.lt <=> wsx.weight < ws_cmp'.o.weight]_varsWS

\* C30 for two sequences of the same length, and the ordering for any two:
\* they compare equal exactly when their items are equal at every position,
\* and one is less than the other exactly when its weight is smaller.
C30_SameLength ==
    [][WSOpCompare =>
          /\ Len(wsx.seq) = Len(ws_cmp'.o.seq) =>
                (ws_cmp'.eq <=> \A i \in 1..Len(wsx.seq) :
                                    wsx.seq[i].name = ws_cmp'.o.seq[i].name)
          /\ ws_cmp'.lt <=> wsx.weight < ws_cmp'.o.weight]_varsWS

\* C5 without the operations that write or delete items and slices: after
\* construction, append, insert, concatenation and merge alone the weight is
\* the sum of the weights of the items held.
C5_WeightIsSumAdding ==
    [][(WSOpSetItem \/ WSOpSetSlice \/ WSOpDelItem \/ WSOpDelSlice)
         \/ (C5_WeightIsSum => C5_WeightIsSum')]_varsWS

\* ------------------------------------ split_in_slices, gen_slices
\* the quotient rounded down, plus one, whether or not b divides a
CeilDivPlusOne(a, b) == a \div b + 1

\* int(math.ceil(a / b)) for b > 0: the float quotient of two small integers
\* is exact enough for its ceiling to be the integer ceiling
CeilDiv(a, b) == -((-a) \div b)

\* assert number > 0; assert num_slices > 0
SplitInSlicesAsserts(number, num_slices) == number > 0 /\ num_slices > 0

\* the asserts of gen_slices, with start < stop for start <= stop
GenSlicesAssertsStrict(first, stop, bsize) == first < stop /\ bsize > 0

\* assert start <= stop; assert blocksize > 0
GenSlicesAsserts(first, stop, bsize) == first <= stop /\ bsize > 0

InitSL ==
    /\ sl_fn \in {"split_in_slices", "split_in_blocks", "gen_slices"}
    /\ sl_hi \in 0..MaxN
    /\ sl_k \in 0..MaxK
    /\ sl_lo \in IF sl_fn = "gen_slices" THEN (-1)..MaxN ELSE {0}
    /\ blocksize = 0
    /\ start = 0
    /\ slices = <<>>
    /\ sl_pc = "call"

\* split_in_slices(number, num_slices) up to the loop: the two asserts and
\* the block size. split_in_blocks(sequence, hint) with an int for sequence
\* returns split_in_slices(sequence, hint).
SISCall ==
    /\ sl_pc = "call"
    /\ sl_fn \in {"split_in_slices", "split_in_blocks"}
    /\ IF SplitInSlicesAsserts(sl_hi, sl_k)
       THEN /\ blocksize' = CeilDiv(sl_hi, sl_k)
            /\ start' = 0
            /\ sl_pc' = "loop"
       ELSE /\ sl_pc' = "error"
            /\ UNCHANGED <<blocksize, start>>
    /\ UNCHANGED <<sl_fn, sl_lo, sl_hi, sl_k, slices>>
    /\ UNCHANGED <<varsBS, varsWS, varsAD, varsSF, varsFA, varsSB>>

\* one turn of the while loop of split_in_slices
SISLoop ==
    /\ sl_pc = "loop"
    /\ sl_fn \in {"split_in_slices", "split_in_blocks"}
    /\ LET stop == Min(start + blocksize, sl_hi)
       IN  /\ slices' = Append(slices, [start |-> start, stop |-> stop])
           /\ IF stop = sl_hi
              THEN sl_pc' = "done" /\ start' = start
              ELSE sl_pc' = "loop" /\ start' = start + blocksize
    /\ UNCHANGED <<sl_fn, sl_lo, sl_hi, sl_k, blocksize>>
    /\ UNCHANGED <<varsBS, varsWS, varsAD, varsSF, varsFA, varsSB>>

\* gen_slices(start, stop, blocksize) up to the loop: the two asserts
GenCall ==
    /\ sl_pc = "call"
    /\ sl_fn = "gen_slices"
    /\ IF GenSlicesAsserts(sl_lo, sl_hi, sl_k)
       THEN /\ blocksize' = sl_k
            /\ start' = sl_lo
            /\ sl_pc' = "loop"
       ELSE /\ sl_pc' = "error"
            /\ UNCHANGED <<blocksize, start>>
    /\ UNCHANGED <<sl_fn, sl_lo, sl_hi, sl_k, slices>>
    /\ UNCHANGED <<varsBS, varsWS, varsAD, varsSF, varsFA, varsSB>>

\* one turn of the while loop of gen_slices: a yield, then the exit test
GenLoop ==
    /\ sl_pc = "loop"
    /\ sl_fn = "gen_slices"
    /\ slices' = Append(slices, [start |-> start, stop |-> Min(start + blocksize, sl_hi)])
    /\ start' = start + blocksize
    /\ sl_pc' = IF start + blocksize >= sl_hi THEN "done" ELSE "loop"
    /\ UNCHANGED <<sl_fn, sl_lo, sl_hi, sl_k, blocksize>>
    /\ UNCHANGED <<varsBS, varsWS, varsAD, varsSF, varsFA, varsSB>>

NextSL == SISCall \/ SISLoop \/ GenCall \/ GenLoop

\* slices that follow one another without a gap or an overlap from lo to hi
Partition(sl, lo, hi) ==
    /\ Len(sl) >= 1
    /\ sl[1].start = lo
    /\ sl[Len(sl)].stop = hi
    /\ \A j \in 1..(Len(sl) - 1) : sl[j].stop = sl[j + 1].start
    /\ \A j \in 1..Len(sl) : sl[j].start <= sl[j].stop

\* the slices the documentation gives: [0, b), [b, 2b), ... clipped to n,
\* with b = ceil(n / k)
DocSlices(n, k) ==
    LET b == IF n % k = 0 THEN n \div k ELSE n \div k + 1
        m == IF n % b = 0 THEN n \div b ELSE n \div b + 1
    IN  [j \in 1..m |-> [start |-> (j - 1) * b,
                         stop |-> IF j * b < n THEN j * b ELSE n]]

\* what C10 says of a call in progress or finished
C10_Safe ==
    /\ (sl_fn \in {"split_in_slices", "split_in_blocks"} /\ sl_pc = "loop")
          => Len(slices) < sl_k
    /\ (sl_fn \in {"split_in_slices", "split_in_blocks"} /\ sl_pc = "done")
          => /\ Partition(slices, 0, sl_hi)
             /\ \A j \in 1..Len(slices) : slices[j].start < slices[j].stop
             /\ Len(slices) <= sl_k
             /\ slices = DocSlices(sl_hi, sl_k)
    /\ (sl_fn = "gen_slices" /\ sl_pc = "done")
          => /\ Partition(slices, sl_lo, sl_hi)
             /\ \A j \in 1..Len(slices) : slices[j].stop - slices[j].start <= blocksize

\* the call has returned, or failed an assert
SLFinished == sl_pc \in {"done", "error"}

C20_RejectNonPositive ==
    (/\ sl_pc # "call"
     /\ \/ sl_hi <= 0
        \/ sl_k <= 0
        \/ sl_fn = "gen_slices" /\ sl_lo <= 0)
    => (sl_pc = "error" /\ slices = <<>>)

\* C20 amended: split_in_slices rejects exactly the calls with number <= 0
\* or num_slices <= 0, and gen_slices exactly the calls with blocksize <= 0
\* or start > stop, in both cases without producing a slice; gen_slices
\* accepts a start or a stop that is zero or negative.
C20_RejectByAsserts ==
    sl_pc # "call" =>
        /\ sl_pc = "error" <=>
              IF sl_fn = "gen_slices"
              THEN sl_k <= 0 \/ sl_lo > sl_hi
              ELSE sl_hi <= 0 \/ sl_k <= 0
        /\ sl_pc = "error" => slices = <<>>

\* gen_slices ran to its end from a start that is not positive and equal to
\* its stop, yielding one empty slice
C20_Witness ==
    /\ sl_fn = "gen_slices"
    /\ sl_pc = "done"
    /\ sl_lo <= 0 /\ sl_lo = sl_hi
    /\ slices = <<[start |-> sl_lo, stop |-> sl_hi]>>

\* ------------------------------------------------------------- AccumDict
\* Values are ints or references to list objects on a heap, so that two
\* names for one list are told apart from two equal lists. A dict maps each
\* key of ADKeys to a value, ADNone standing for "not in the dict"; items()
\* and iteration follow ADOrder.
ADKeys == {"k1", "k2"}
ADOrder == <<"k1", "k2">>
ADNone == [t |-> "none", v |-> 0]
ADInt(n) == [t |-> "int", v |-> n]
ADList(r) == [t |-> "list", v |-> r]
ADEmptyDict == [k \in ADKeys |-> ADNone]

\* A context is what one operation works on and what it may change: the
\* dict d and the template accum of the target, the heap h, and the
\* exception err raised so far ("" for none).
ADCtx(d, accum, h) == [d |-> d, accum |-> accum, h |-> h, err |-> ""]

\* copy.deepcopy(v), keeping the very object instead of copying it
ADDeepCopyAlias(h, v) == [h |-> h, v |-> v]

\* copy.deepcopy(v): an int is itself, a list is a new list object with the
\* same contents
ADDeepCopy(h, v) ==
    IF v.t = "list" THEN [h |-> Append(h, h[v.v]), v |-> ADList(Len(h) + 1)]
    ELSE [h |-> h, v |-> v]

\* AccumDict.__missing__(key); the value returned is c.d[key] afterwards
ADMissing(c, k) ==
    IF c.accum = ADNone THEN [c EXCEPT !.err = "KeyError"]
    ELSE LET cp == ADDeepCopy(c.h, c.accum)
         IN  [c EXCEPT !.d[k] = cp.v, !.h = cp.h]

\* self[k]: dict.__getitem__, which calls __missing__ for a key not there
ADGetItem(c, k) == IF c.d[k] = ADNone THEN ADMissing(c, k) ELSE c

\* x + y for two values; the new value, a new list object where the result
\* is a list, and the exception
ADPlus(h, x, y) ==
    IF x.t = "int" /\ y.t = "int" THEN [h |-> h, v |-> ADInt(x.v + y.v), err |-> ""]
    ELSE IF x.t = "list" /\ y.t = "list"
    THEN [h |-> Append(h, h[x.v] \o h[y.v]), v |-> ADList(Len(h) + 1), err |-> ""]
    ELSE [h |-> h, v |-> ADNone, err |-> "TypeError"]

\* the body of the loop of __iadd__ with every key treated as a new key
ADIAddKeyOverwrite(c, k, v) == [c EXCEPT !.d[k] = v]

\* the body of the loop of __iadd__ over other.items(), for the item (k, v)
ADIAddKey(c, k, v) ==
    IF c.d[k] = ADNone THEN [c EXCEPT !.d[k] = v]
    ELSE IF v.t = "list"
    THEN (IF c.d[k].t = "list"
          THEN [c EXCEPT !.h[c.d[k].v] = c.h[c.d[k].v] \o c.h[v.v]]
          ELSE [c EXCEPT !.err = "AttributeError"])
    ELSE LET r == ADPlus(c.h, c.d[k], v)
         IN  IF r.err # "" THEN [c EXCEPT !.err = r.err]
             ELSE [c EXCEPT !.d[k] = r.v, !.h = r.h]

\* the body of the loop of __iadd__ over self, for a scalar other
ADIAddScalarKey(c, k, x) ==
    LET r == ADPlus(c.h, c.d[k], ADInt(x))
    IN  IF r.err # "" THEN [c EXCEPT !.err = r.err]
        ELSE [c EXCEPT !.d[k] = r.v, !.h = r.h]

RECURSIVE ADIAddItems(_, _, _)
\* for k, v in other.items(): ... ; an exception ends the loop
ADIAddItems(c, od, ks) ==
    IF ks = <<>> \/ c.err # "" THEN c
    ELSE IF od[Head(ks)] = ADNone THEN ADIAddItems(c, od, Tail(ks))
    ELSE ADIAddItems(ADIAddKey(c, Head(ks), od[Head(ks)]), od, Tail(ks))

RECURSIVE ADIAddScalar(_, _, _)
\* for k in self: self[k] = self[k] + other
ADIAddScalar(c, x, ks) ==
    IF ks = <<>> \/ c.err # "" THEN c
    ELSE IF c.d[Head(ks)] = ADNone THEN ADIAddScalar(c, x, Tail(ks))
    ELSE ADIAddScalar(ADIAddScalarKey(c, Head(ks), x), x, Tail(ks))

\* AccumDict.__iadd__(other)
ADIAdd(c, o) ==
    IF o.kind = "map" THEN ADIAddItems(c, o.d, ADOrder) ELSE ADIAddScalar(c, o.s, ADOrder)

\* self.__class__(self): a new AccumDict with the same values and no template
ADCopy(c) == [c EXCEPT !.accum = ADNone]

\* AccumDict.__add__(other), also __radd__
ADAdd(c, o) == ADIAdd(ADCopy(c), o)

RECURSIVE Repeat(_, _)
\* a list repeated n times (the empty list for n <= 0)
Repeat(l, n) == IF n <= 0 THEN <<>> ELSE l \o Repeat(l, n - 1)

RECURSIVE IntPow(_, _)
\* x ** n for ints and n >= 0
IntPow(x, n) == IF n <= 0 THEN 1 ELSE x * IntPow(x, n - 1)

\* x - y for two values
ADMinus(h, x, y) ==
    IF x.t = "int" /\ y.t = "int" THEN [h |-> h, v |-> ADInt(x.v - y.v), err |-> ""]
    ELSE [h |-> h, v |-> ADNone, err |-> "TypeError"]

\* x * y for two values: a product of ints, or a list repeated
ADTimes(h, x, y) ==
    IF x.t = "int" /\ y.t = "int" THEN [h |-> h, v |-> ADInt(x.v * y.v), err |-> ""]
    ELSE IF x.t = "list" /\ y.t = "int"
    THEN [h |-> Append(h, Repeat(h[x.v], y.v)), v |-> ADList(Len(h) + 1), err |-> ""]
    ELSE IF x.t = "int" /\ y.t = "list"
    THEN [h |-> Append(h, Repeat(h[y.v], x.v)), v |-> ADList(Len(h) + 1), err |-> ""]
    ELSE [h |-> h, v |-> ADNone, err |-> "TypeError"]

\* the context after self[k] = <result r of an operator>, or after its exception
ADStore(c, k, r) ==
    IF r.err # "" THEN [c EXCEPT !.err = r.err] ELSE [c EXCEPT !.d[k] = r.v, !.h = r.h]

\* the body of the loop of __isub__ with the value of a new key negated
ADISubKeyNegated(c, k, v) ==
    LET c1 == ADGetItem(c, k)
    IN  IF c1.err = "KeyError" THEN ADStore(c, k, ADMinus(c.h, ADInt(0), v))
        ELSE ADStore(c1, k, ADMinus(c1.h, c1.d[k], v))

\* the body of the loop of __isub__ over other.items(), for the item (k, v):
\* try self[k] = self[k] - v, except KeyError: self[k] = v
ADISubKey(c, k, v) ==
    LET c1 == ADGetItem(c, k)
    IN  IF c1.err = "KeyError" THEN [c EXCEPT !.d[k] = v]
        ELSE ADStore(c1, k, ADMinus(c1.h, c1.d[k], v))

\* the body of the loop of __imul__ over other.items(), for the item (k, v)
ADIMulKey(c, k, v) ==
    LET c1 == ADGetItem(c, k)
    IN  IF c1.err = "KeyError" THEN [c EXCEPT !.d[k] = v]
        ELSE ADStore(c1, k, ADTimes(c1.h, c1.d[k], v))

RECURSIVE ADISubItems(_, _, _)
\* for k, v in other.items(): ... of __isub__
ADISubItems(c, od, ks) ==
    IF ks = <<>> \/ c.err # "" THEN c
    ELSE IF od[Head(ks)] = ADNone THEN ADISubItems(c, od, Tail(ks))
    ELSE ADISubItems(ADISubKey(c, Head(ks), od[Head(ks)]), od, Tail(ks))

RECURSIVE ADIMulItems(_, _, _)
\* for k, v in other.items(): ... of __imul__
ADIMulItems(c, od, ks) ==
    IF ks = <<>> \/ c.err # "" THEN c
    ELSE IF od[Head(ks)] = ADNone THEN ADIMulItems(c, od, Tail(ks))
    ELSE ADIMulItems(ADIMulKey(c, Head(ks), od[Head(ks)]), od, Tail(ks))

RECURSIVE ADISubScalar(_, _, _)
\* for k in self: self[k] = self[k] - other
ADISubScalar(c, x, ks) ==
    IF ks = <<>> \/ c.err # "" THEN c
    ELSE IF c.d[Head(ks)] = ADNone THEN ADISubScalar(c, x, Tail(ks))
    ELSE ADISubScalar(ADStore(c, Head(ks), ADMinus(c.h, c.d[Head(ks)], ADInt(x))),
                      x, Tail(ks))

RECURSIVE ADIMulScalar(_, _, _)
\* for k in self: self[k] = self[k] * other
ADIMulScalar(c, x, ks) ==
    IF ks = <<>> \/ c.err # "" THEN c
    ELSE IF c.d[Head(ks)] = ADNone THEN ADIMulScalar(c, x, Tail(ks))
    ELSE ADIMulScalar(ADStore(c, Head(ks), ADTimes(c.h, c.d[Head(ks)], ADInt(x))),
                      x, Tail(ks))

\* AccumDict.__isub__(other)
ADISub(c, o) ==
    IF o.kind = "map" THEN ADISubItems(c, o.d, ADOrder) ELSE ADISubScalar(c, o.s, ADOrder)

\* AccumDict.__sub__(other)
ADSub(c, o) == ADISub(ADCopy(c), o)

\* AccumDict.__imul__(other)
ADIMul(c, o) ==
    IF o.kind = "map" THEN ADIMulItems(c, o.d, ADOrder) ELSE ADIMulScalar(c, o.s, ADOrder)

\* AccumDict.__mul__(other), also __rmul__
ADMul(c, o) == ADIMul(ADCopy(c), o)

RECURSIVE ADNegItems(_, _, _)
\* {k: -v for k, v in self.items()}, built into the new dict of context n
ADNegItems(n, d, ks) ==
    IF ks = <<>> \/ n.err # "" THEN n
    ELSE IF d[Head(ks)] = ADNone THEN ADNegItems(n, d, Tail(ks))
    ELSE ADNegItems(ADStore(n, Head(ks), ADMinus(n.h, ADInt(0), d[Head(ks)])),
                    d, Tail(ks))

\* AccumDict.__neg__(): a new AccumDict, no template
ADNeg(c) == ADNegItems(ADCtx(ADEmptyDict, ADNone, c.h), c.d, ADOrder)

\* AccumDict.__rsub__(other): - self.__sub__(other)
ADRSub(c, o) ==
    LET r == ADSub(c, o) IN IF r.err # "" THEN r ELSE ADNeg(r)

\* x ** n for a value
ADPower(h, x, n) ==
    IF x.t = "int" THEN [h |-> h, v |-> ADInt(IntPow(x.v, n)), err |-> ""]
    ELSE [h |-> h, v |-> ADNone, err |-> "TypeError"]

RECURSIVE ADPowItems(_, _, _)
\* for key in new: new[key] **= n
ADPowItems(c, n, ks) ==
    IF ks = <<>> \/ c.err # "" THEN c
    ELSE IF c.d[Head(ks)] = ADNone THEN ADPowItems(c, n, Tail(ks))
    ELSE ADPowItems(ADStore(c, Head(ks), ADPower(c.h, c.d[Head(ks)], n)), n, Tail(ks))

\* AccumDict.__pow__(n)
ADPow(c, n) == ADPowItems(ADCopy(c), n, ADOrder)

\* func(value, *extras) for the func of the docstring, lambda x, y: 2 * x + y
ADDocFunc(h, x, y) ==
    LET t == ADTimes(h, ADInt(2), x)
    IN  IF t.err # "" THEN t ELSE ADPlus(t.h, t.v, ADInt(y))

RECURSIVE ADApplyItems(_, _, _, _)
\* {key: func(value, *extras) for key, value in self.items()}
ADApplyItems(n, d, y, ks) ==
    IF ks = <<>> \/ n.err # "" THEN n
    ELSE IF d[Head(ks)] = ADNone THEN ADApplyItems(n, d, y, Tail(ks))
    ELSE ADApplyItems(ADStore(n, Head(ks), ADDocFunc(n.h, d[Head(ks)], y)),
                      d, y, Tail(ks))

\* AccumDict.apply(func, *extras): a new AccumDict, no template
ADApply(c, y) == ADApplyItems(ADCtx(ADEmptyDict, ADNone, c.h), c.d, y, ADOrder)

\* AccumDict.__truediv__(other) for a scalar whose inverse 1. / other is a
\* whole number: self * (1. / other)
ADTrueDiv(c, x) == ADMul(c, [kind |-> "scalar", d |-> ADEmptyDict, s |-> 1 \div x])

ADNoRes == [ok |-> FALSE, d |-> ADEmptyDict, accum |-> ADNone]
ADScalar(x) == [kind |-> "scalar", d |-> ADEmptyDict, s |-> x]
ADMap(d) == [kind |-> "map", d |-> d, s |-> 0]

\* The values the caller builds a and b from: a holds 3 or the list [1],
\* b holds 2 or the list [2], the template is 0, 1 or the empty list; every
\* list is an object of its own.
ADTags == {"none", "int", "list"}
ADSlots == <<"a.k1", "a.k2", "accum", "b.k1", "b.k2">>

\* the reference of the list in slot i, lists being allocated slot by slot
ADSlotRef(tags, i) == Cardinality({j \in 1..i : tags[j] = "list"})

ADSlotValue(tags, i, n) ==
    IF tags[i] = "list" THEN ADList(ADSlotRef(tags, i))
    ELSE IF tags[i] = "int" THEN ADInt(n) ELSE ADNone

ADSlotHeap(tags) ==
    [r \in 1..ADSlotRef(tags, 5) |->
        LET i == CHOOSE j \in 1..5 : tags[j] = "list" /\ ADSlotRef(tags, j) = r
        IN  IF i <= 2 THEN <<1>> ELSE IF i = 3 THEN <<>> ELSE <<2>>]

InitAD ==
    \E tags \in [1..5 -> ADTags], t \in {0, 1}, sc \in {0, 1, 2} :
        /\ sc # 0 => (tags[4] = "none" /\ tags[5] = "none")
        /\ tags[3] # "int" => t = 0
        /\ acc = [d |-> [k \in ADKeys |->
                           ADSlotValue(tags, IF k = "k1" THEN 1 ELSE 2, 3)],
                  accum |-> ADSlotValue(tags, 3, t)]
        /\ other = IF sc # 0 THEN ADScalar(sc)
                   ELSE ADMap([k \in ADKeys |->
                                 ADSlotValue(tags, IF k = "k1" THEN 4 ELSE 5, 2)])
        /\ heap = ADSlotHeap(tags)
        /\ res = ADNoRes
        /\ ad_op = [name |-> "new", key |-> "k1"]
        /\ ad_err = ""
        /\ ad_prev = [acc |-> acc, heap |-> heap]
        /\ ad_n = 0

\* the context of an operation on a
ADSelf == ADCtx(acc.d, acc.accum, heap)

\* an in-place operator on a has run and left the context c
ADInPlace(name, key, c) ==
    /\ acc' = [acc EXCEPT !.d = c.d]
    /\ heap' = c.h
    /\ ad_err' = c.err
    /\ res' = ADNoRes
    /\ ad_op' = [name |-> name, key |-> key]
    /\ ad_prev' = [acc |-> acc, heap |-> heap]
    /\ ad_n' = ad_n + 1
    /\ UNCHANGED other
    /\ UNCHANGED <<varsBS, varsWS, varsSL, varsSF, varsFA, varsSB>>

\* an operator that returns a new AccumDict has run and left the context c
ADBinary(name, c) ==
    /\ res' = IF c.err = "" THEN [ok |-> TRUE, d |-> c.d, accum |-> c.accum] ELSE ADNoRes
    /\ heap' = c.h
    /\ ad_err' = c.err
    /\ ad_op' = [name |-> name, key |-> "k1"]
    /\ ad_prev' = [acc |-> acc, heap |-> heap]
    /\ ad_n' = ad_n + 1
    /\ UNCHANGED <<acc, other>>
    /\ UNCHANGED <<varsBS, varsWS, varsSL, varsSF, varsFA, varsSB>>

\* a += b
ADOpIAdd == ad_n < MaxADOps /\ ADInPlace("iadd", "k1", ADIAdd(ADSelf, other))

\* a + b
ADOpAdd == ad_n < MaxADOps /\ ADBinary("add", ADAdd(ADSelf, other))

\* b + a for a plain mapping b: dict has no __add__, so a.__radd__(b) runs
ADOpRAdd == ad_n < MaxADOps /\ other.kind = "map" /\ ADBinary("radd", ADAdd(ADSelf, other))

\* a -= b
ADOpISub == ad_n < MaxADOps /\ ADInPlace("isub", "k1", ADISub(ADSelf, other))

\* a - b
ADOpSub == ad_n < MaxADOps /\ ADBinary("sub", ADSub(ADSelf, other))

\* b - a for a plain mapping or a scalar b
ADOpRSub == ad_n < MaxADOps /\ ADBinary("rsub", ADRSub(ADSelf, other))

\* a *= b
ADOpIMul == ad_n < MaxADOps /\ ADInPlace("imul", "k1", ADIMul(ADSelf, other))

\* a * b
ADOpMul == ad_n < MaxADOps /\ ADBinary("mul", ADMul(ADSelf, other))

\* a ** 2
ADOpPow == ad_n < MaxADOps /\ ADBinary("pow", ADPow(ADSelf, 2))

\* -a
ADOpNeg == ad_n < MaxADOps /\ ADBinary("neg", ADNeg(ADSelf))

\* a / 1
ADOpTrueDiv ==
    /\ ad_n < MaxADOps /\ other.kind = "scalar" /\ other.s = 1
    /\ ADBinary("truediv", ADTrueDiv(ADSelf, other.s))

\* a.apply(lambda x, y: 2 * x + y, 1)
ADOpApply == ad_n < MaxADOps /\ ADBinary("apply", ADApply(ADSelf, 1))

\* a[k], read
ADOpGet ==
    ad_n < MaxADOps /\ \E k \in ADKeys : ADInPlace("get", k, ADGetItem(ADSelf, k))

\* the body of a[k] += x once a[k] was read: a list is extended in place by
\* [1], an int has 1 added; then a[k] is set to the result
ADAugment(c, k) ==
    IF c.err # "" THEN c
    ELSE IF c.d[k].t = "list" THEN [c EXCEPT !.h[c.d[k].v] = Append(c.h[c.d[k].v], 1)]
    ELSE [c EXCEPT !.d[k] = ADInt(c.d[k].v + 1)]

\* a[k] += [1] (a[k] += 1 where the value is an int)
ADOpAugment ==
    /\ ad_n < MaxADOps
    /\ \E k \in ADKeys : ADInPlace("augment", k, ADAugment(ADGetItem(ADSelf, k), k))

NextAD ==
    \/ ADOpIAdd \/ ADOpAdd \/ ADOpRAdd
    \/ ADOpISub \/ ADOpSub \/ ADOpRSub
    \/ ADOpIMul \/ ADOpMul \/ ADOpPow \/ ADOpNeg \/ ADOpTrueDiv \/ ADOpApply
    \/ ADOpGet \/ ADOpAugment

\* ------------------------------------------------ AccumDict: the properties
\* a value with a list reference replaced by the list's contents
DeepV(h, v) == IF v.t = "list" THEN [t |-> "list", v |-> h[v.v]] ELSE v

\* a dict with every list reference replaced by the list's contents
DeepD(h, d) == [k \in ADKeys |-> DeepV(h, d[k])]

\* two values are the same: the same kind and the same number or contents
SameV(x, y) == x.t = y.t /\ x.v = y.v

\* two dicts have the same keys and the same values
SameD(d1, d2) == \A k \in ADKeys : SameV(d1[k], d2[k])

\* a and b as they were before the last operation, and its result: a itself
\* for an in-place operator, the AccumDict returned otherwise
PrevA == DeepD(ad_prev.heap, ad_prev.acc.d)
PrevB == DeepD(ad_prev.heap, other.d)
PrevAccum == DeepV(ad_prev.heap, ad_prev.acc.accum)
NowA == DeepD(heap, acc.d)
NowB == DeepD(heap, other.d)
NowRes == DeepD(heap, res.d)
ADInPlaceOps == {"iadd", "isub", "imul"}
ADBinaryOps == {"add", "radd", "sub", "rsub", "mul", "pow", "neg", "truediv", "apply"}
ADResult == IF ad_op.name \in ADInPlaceOps THEN NowA ELSE NowRes

\* x + y as the documentation gives it, on values with their contents
DocPlus(x, y) ==
    IF x.t = "none" THEN y
    ELSE IF y.t = "none" THEN x
    ELSE IF x.t = "int" THEN ADInt(x.v + y.v)
    ELSE [t |-> "list", v |-> x.v \o y.v]

\* the values of a and b can be added key by key
Addable ==
    IF other.kind = "map"
    THEN \A k \in ADKeys : PrevA[k].t = "none" \/ PrevB[k].t = "none" \/ PrevA[k].t = PrevB[k].t
    ELSE \A k \in ADKeys : PrevA[k].t # "list"

\* C6: a + b, a += b and b + a (b a plain mapping) have the keys of a and of
\* b, with a[k] + b[k] for a key in both (lists joined), b[k] for a key of b
\* alone and a[k] for a key of a alone; a scalar b is added to every value
\* of a and the keys stay those of a.
C6_AddAlgebra ==
    (ad_op.name \in {"iadd", "add", "radd"} /\ Addable) =>
        /\ ad_err = ""
        /\ ad_op.name # "iadd" => res.ok
        /\ SameD(ADResult,
                 [k \in ADKeys |->
                    IF other.kind = "map" THEN DocPlus(PrevA[k], PrevB[k])
                    ELSE IF PrevA[k].t = "none" THEN ADNone
                    ELSE ADInt(PrevA[k].v + other.s)])

\* b + a ran for a plain mapping b, with a list under k1 on both sides and
\* k2 in b alone
C6_Witness ==
    /\ ad_op.name = "radd" /\ ad_err = ""
    /\ PrevA["k1"].t = "list" /\ PrevB["k1"].t = "list"
    /\ PrevA["k2"].t = "none" /\ PrevB["k2"].t = "int"

\* C7: reading a missing key fails with KeyError and changes nothing when
\* there is no template; with a template the key gets a copy of it that is a
\* new object, and a[k] += ... on one key changes neither the value of
\* another key nor the template.
C7_MissingKey ==
    LET k == ad_op.key
        missing == ad_prev.acc.d[k] = ADNone
    IN  /\ (ad_op.name = "get" /\ missing /\ acc.accum = ADNone) =>
              /\ ad_err = "KeyError"
              /\ acc = ad_prev.acc /\ heap = ad_prev.heap
        /\ (ad_op.name = "get" /\ missing /\ acc.accum # ADNone) =>
              /\ ad_err = ""
              /\ SameV(DeepV(heap, acc.d[k]), PrevAccum)
              /\ acc.d[k].t = "list" => acc.d[k].v > Len(ad_prev.heap)
        /\ (ad_op.name \in {"get", "augment"}) =>
              /\ \A j \in ADKeys \ {k} : SameV(NowA[j], PrevA[j])
              /\ SameV(DeepV(heap, acc.accum), PrevAccum)

\* a[k] += [1] ran on a key while the other key holds an untouched copy of
\* the template [], which is still empty itself
C7_Witness ==
    /\ ad_op.name = "augment" /\ ad_err = ""
    /\ acc.accum.t = "list" /\ heap[acc.accum.v] = <<>>
    /\ \E j \in ADKeys \ {ad_op.key} : SameV(NowA[j], [t |-> "list", v |-> <<>>])
    /\ SameV(NowA[ad_op.key], [t |-> "list", v |-> <<1>>])

\* C8: an operator that returns a new AccumDict leaves a and b as they were,
\* the contents of their lists included, and an in-place operator on a
\* leaves b as it was, the contents of its lists included.
C8_OperandsUntouched ==
    /\ ad_op.name \in ADBinaryOps => (SameD(NowA, PrevA) /\ SameD(NowB, PrevB))
    /\ ad_op.name \in ADInPlaceOps => SameD(NowB, PrevB)

\* a - b as the claim gives it: the raw b[k] for a key of b alone
RawMinus(x, y) ==
    IF y.t = "none" THEN x
    ELSE IF x.t = "none" THEN y
    ELSE ADInt(x.v - y.v)

\* C9 as stated: for a - b and a -= b, with or without a template, a key in
\* both gets a[k] - b[k], a key of a alone keeps a[k], and a key of b alone
\* is inserted with the raw b[k].
C9_SubRawInsert ==
    (ad_op.name \in {"sub", "isub"} /\ other.kind = "map" /\ ad_err = "") =>
        SameD(ADResult, [k \in ADKeys |-> RawMinus(PrevA[k], PrevB[k])])

\* C9 amended: as above, except that a -= b on an a with a template t gives
\* a key of b alone the value t - b[k]; a - b always inserts the raw b[k].
C9_SubInsertPolicy ==
    (ad_op.name \in {"sub", "isub"} /\ other.kind = "map" /\ ad_err = "") =>
        SameD(ADResult,
              [k \in ADKeys |->
                 IF /\ ad_op.name = "isub" /\ acc.accum # ADNone
                    /\ PrevA[k].t = "none" /\ PrevB[k].t # "none"
                 THEN ADInt(PrevAccum.v - PrevB[k].v)
                 ELSE RawMinus(PrevA[k], PrevB[k])])

\* a -= b ran on an a with the template 1, k1 in b alone and k2 in both
C9_Witness ==
    /\ ad_op.name = "isub" /\ ad_err = ""
    /\ acc.accum = ADInt(1)
    /\ PrevA["k1"].t = "none" /\ PrevB["k1"].t = "int"
    /\ PrevA["k2"].t = "int" /\ PrevB["k2"].t = "int"
    /\ SameV(NowA["k1"], ADInt(-1))

\* ----------------------------------------------------------- SourceFilter
\* Longitudes and latitudes are whole degrees and a distance is a number of
\* degrees of arc. A site collection is the sequence of its points, the site
\* id of a point being its position; a source is a point, its source_id its
\* position in the list of sources.

\* the degrees in a full turn
FullTurn == 360

\* the points a site may lie on
SitePoints ==
    << [lon |-> -179, lat |-> 0], [lon |-> 1, lat |-> 0],
       [lon |-> 1, lat |-> 1],    [lon |-> 179, lat |-> 0] >>

\* the longitudes a source may lie on, at latitude 0
SrcLons == {-179, 0, 1, 179}

RECURSIVE SeqOfSet(_)
\* the members of a set of numbers in increasing order
SeqOfSet(S) ==
    IF S = {} THEN <<>>
    ELSE LET m == CHOOSE x \in S : \A y \in S : x <= y
         IN  <<m>> \o SeqOfSet(S \ {m})

\* sitecol is None
NoSitecol == [none |-> TRUE, pts |-> <<>>]

\* the site collections a filter is built on: None, or up to MaxSites points
Sitecols ==
    {NoSitecol} \cup
    { [none |-> FALSE,
       pts |-> [j \in 1..Cardinality(S) |-> SitePoints[SeqOfSet(S)[j]]]] :
         S \in {T \in SUBSET (1..Len(SitePoints)) :
                   Cardinality(T) \in 1..MaxSites} }

\* The integration distance: None, a scalar d, or an IntegrationDistance
\* that gives d for the tectonic region type of the sources, the largest
\* distance of that type, and dm <= d for that type and the maximum
\* magnitude of the sources.
Policies ==
    {[kind |-> "none", d |-> 0, dm |-> 0]}
    \cup {[kind |-> "scalar", d |-> d, dm |-> d] : d \in 1..MaxDist}
    \cup {[kind |-> "dict", d |-> x[1], dm |-> x[2]] :
             x \in {y \in (1..MaxDist) \X (1..MaxDist) : y[2] <= y[1]}}

\* the truth value of integration_distance
PolicyTruthy(p) == p.kind # "none"

\* the absolute value
Abs(x) == IF x < 0 THEN -x ELSE x

\* the least and the greatest member of a non-empty set of numbers
MinOf(S) == CHOOSE x \in S : \A y \in S : x <= y
MaxOf(S) == CHOOSE x \in S : \A y \in S : x >= y

\* cross_idl(lon1, lon2): the signs differ and the longitudes are more than
\* half a turn apart
CrossIdl(lon1, lon2) == lon1 * lon2 < 0 /\ Abs(lon1 - lon2) > 180

\* fix_lons_idl(lons): the longitudes modulo 360 and True when they cross
\* the date line, else the longitudes as they are and False
FixLonsIdl(pts) ==
    LET lons == {pts[j].lon : j \in 1..Len(pts)}
        idl == CrossIdl(MinOf(lons), MaxOf(lons))
    IN  [idl |-> idl,
         lons |-> [j \in 1..Len(pts) |->
                     IF idl THEN pts[j].lon % FullTurn ELSE pts[j].lon]]

\* SourceFilter.__init__ with the rtree module installed. The attributes
\* index and idl exist only when use_rtree is true; idl is then "yes" or
\* "no" and index the set of the boxes inserted, one degenerate box a site.
SourceFilterInit(sitecol, integration_distance, use_rtree) ==
    LET use == use_rtree /\ PolicyTruthy(integration_distance) /\ ~sitecol.none
        fixed == FixLonsIdl(sitecol.pts)
    IN  [sitecol |-> sitecol,
         integration_distance |-> integration_distance,
         use_rtree |-> use,
         has_index |-> use,
         idl |-> IF ~use THEN "absent" ELSE IF fixed.idl THEN "yes" ELSE "no",
         index |-> IF ~use THEN {}
                   ELSE {[sid |-> j, lon |-> fixed.lons[j], lat |-> sitecol.pts[j].lat] :
                            j \in 1..Len(sitecol.pts)}]

\* __getstate__ keeping the use_rtree flag of the filter
GetStateKeepFlag(self) ==
    [integration_distance |-> self.integration_distance,
     sitecol |-> self.sitecol, use_rtree |-> self.use_rtree]

\* SourceFilter.__getstate__
GetState(self) ==
    [integration_distance |-> self.integration_distance,
     sitecol |-> self.sitecol, use_rtree |-> FALSE]

\* Unpickling: a new object whose __dict__ is the pickled state; it has
\* neither an index nor an idl attribute.
SetState(state) ==
    [sitecol |-> state.sitecol,
     integration_distance |-> state.integration_distance,
     use_rtree |-> state.use_rtree,
     has_index |-> FALSE, idl |-> "absent", index |-> {}]

\* a longitude brought back into [-180, 180]
WrapLon(x) ==
    IF x > 180 THEN x - FullTurn ELSE IF x < -180 THEN x + FullTurn ELSE x

\* src.get_bounding_box(maxdist): the point of the source enlarged by
\* maxdist on every side, (min_lon, min_lat, max_lon, max_lat), the
\* longitudes in [-180, 180]
GetBoundingBox(src, maxdist) ==
    <<WrapLon(src.lon - maxdist), src.lat - maxdist,
      WrapLon(src.lon + maxdist), src.lat + maxdist>>

\* get_affected_box, the branch `if self.idl`: the four cases by the signs
\* of min_lon and max_lon; when none of them applies the method falls off
\* its end and returns None, for which <<>> stands
IdlFix(b) ==
    LET min_lon == b[1]  min_lat == b[2]  max_lon == b[3]  max_lat == b[4]
    IN  IF min_lon < 0 /\ max_lon > 0
        THEN <<max_lon, min_lat, min_lon + FullTurn, max_lat>>
        ELSE IF min_lon < 0 /\ max_lon < 0
        THEN <<min_lon + FullTurn, min_lat, max_lon + FullTurn, max_lat>>
        ELSE IF min_lon > 0 /\ max_lon > 0
        THEN <<min_lon, min_lat, max_lon, max_lat>>
        ELSE IF min_lon > 0 /\ max_lon < 0
        THEN <<max_lon + FullTurn, min_lat, min_lon, max_lat>>
        ELSE <<>>

\* get_affected_box(src) on a filter that has the idl attribute: maxdist is
\* integration_distance[tectonic_region_type], or the scalar itself
GetAffectedBox(self, src) ==
    LET b == GetBoundingBox(src, self.integration_distance.d)
    IN  IF self.idl = "yes" THEN IdlFix(b) ELSE b

\* rtree: a box is valid when no minimum is above its maximum
BoxValid(b) == Len(b) = 4 /\ b[1] <= b[3] /\ b[2] <= b[4]

\* an intersection that leaves out the sites on the edge of the box
IndexIntersectionOpen(index, b) ==
    {e.sid : e \in {x \in index : /\ b[1] < x.lon /\ x.lon < b[3]
                                  /\ b[2] < x.lat /\ x.lat < b[4]}}

\* self.index.intersection(box), sorted: the ids of the sites inside the box
IndexIntersection(index, b) ==
    {e.sid : e \in {x \in index : /\ b[1] <= x.lon /\ x.lon <= b[3]
                                  /\ b[2] <= x.lat /\ x.lat <= b[4]}}

\* the distance in longitude between two points, the short way round
LonDistance(a, b) ==
    LET d == Abs(a - b) % FullTurn
    IN  IF d > 180 THEN FullTurn - d ELSE d

\* src.filter_sites_by_distance_to_source(maxdist, sites): the ids of the
\* sites within maxdist of the source
FilterSitesByDistanceToSource(src, maxdist, pts, sids) ==
    {j \in sids :
        LET dx == LonDistance(pts[j].lon, src.lon)
            dy == Abs(pts[j].lat - src.lat)
        IN  dx * dx + dy * dy <= maxdist * maxdist}

\* the calls of the filter that may run at the same time
Queries == {1, 2}

\* the methods of a source that may raise: get_bounding_box,
\* get_min_max_mag, filter_sites_by_distance_to_source
FailStages == {"none", "box", "mag", "filter"}

\* no exception
NoError == [etype |-> "", annotated |-> FALSE, src |-> 0]

\* the ids of all the sites of a site collection
AllSids(sitecol) == 1..Len(sitecol.pts)

\* A call that has not been made yet, with its sites argument: the ids of
\* the sites of the collection passed (all of them when sites is None).
\* paths is the set of branches of the loop the call has taken, box the last
\* value get_affected_box returned to it (<<>> for None) and boxsrc the
\* source it was for (0 before the first).
NewQuery(sids) ==
    [pc |-> "call", sites |-> sids, i |-> 1, pending |-> {},
     out |-> <<>>, err |-> NoError, paths |-> {}, box |-> <<>>, boxsrc |-> 0]

\* a second call that is never made
NoQuery ==
    [pc |-> "absent", sites |-> {}, i |-> 1, pending |-> {},
     out |-> <<>>, err |-> NoError, paths |-> {}, box |-> <<>>, boxsrc |-> 0]

\* no direct call of get_affected_box made yet
NoBox == [src |-> 0, res |-> "", box |-> <<>>]

\* the outcome of sf.get_affected_box(sources[j]) called by itself: the maximum
\* distance, then the bounding box of the source, then the test of self.idl,
\* an attribute only a filter with an index has
GetAffectedBoxCall(self, j) ==
    IF sf_fail = "box" /\ j = Len(sources)
    THEN [src |-> j, res |-> "ValueError", box |-> <<>>]
    ELSE IF self.idl = "absent"
    THEN [src |-> j, res |-> "AttributeError", box |-> <<>>]
    ELSE LET b == GetAffectedBox(self, sources[j])
         IN  [src |-> j, res |-> IF b = <<>> THEN "None" ELSE "tuple", box |-> b]

InitSF ==
    /\ \E sitecol \in Sitecols, p \in Policies, use_rtree \in BOOLEAN :
          sf = SourceFilterInit(sitecol, p, use_rtree)
    /\ sf_orig = sf
    /\ sf_unpickled = FALSE
    /\ sources \in UNION {[1..n -> [lon : SrcLons, lat : {0}]] : n \in 1..MaxSrc}
    /\ sf_fail \in FailStages
    /\ nsites = [i \in 1..Len(sources) |-> -1]
    /\ \E second \in {NoQuery} \cup
                     (IF sf_fail = "none"
                      THEN {NewQuery(AllSids(sf.sitecol)),
                            NewQuery(AllSids(sf.sitecol) \cap {1})}
                      ELSE {}) :
          qs = [q \in Queries |->
                  IF q = 1 THEN NewQuery(AllSids(sf.sitecol)) ELSE second]
    /\ sf_box = NoBox

\* pickle.loads(pickle.dumps(sf)), before any call is made: the calls are
\* then made on the copy
SFPickle ==
    /\ ~sf_unpickled
    /\ \A q \in Queries : qs[q].pc \in {"call", "absent"}
    /\ sf' = SetState(GetState(sf))
    /\ sf_unpickled' = TRUE
    /\ UNCHANGED <<sf_orig, sources, sf_fail, nsites, qs>>
    /\ UNCHANGED <<sf_box, varsBS, varsWS, varsSL, varsAD, varsFA, varsSB>>

\* sf(sources, sites) is called and its generator entered
SFCall ==
    /\ \E q \in Queries :
          /\ qs[q].pc = "call"
          /\ qs' = [qs EXCEPT ![q].pc = "next"]
    /\ UNCHANGED <<sf, sf_orig, sf_unpickled, sources, sf_fail, nsites>>
    /\ UNCHANGED <<sf_box, varsBS, varsWS, varsSL, varsAD, varsFA, varsSB>>

\* the source the q-th call stands at raises in the given method
Raises(q, stage) == sf_fail = stage /\ qs[q].i = Len(sources)

\* the q-th call ends with an exception of the given type, raised on the
\* given branch; annotated tells whether its message names the source
Failed(q, etype, annotated, path) ==
    [qs EXCEPT ![q].pc = "error",
               ![q].paths = @ \cup {path},
               ![q].err = [etype |-> etype, annotated |-> annotated,
                           src |-> qs[q].i]]

\* context(src) around a block that raises etype: the exception raised
\* again has the same type and a message with src.source_id
Context(q, etype, path) == Failed(q, etype, TRUE, path)

\* the q-th call has a subset for its source, or drops the source
Found(q, sids, path) ==
    IF sids = {}
    THEN [qs EXCEPT ![q].i = @ + 1, ![q].paths = @ \cup {path}]
    ELSE [qs EXCEPT ![q].pc = "annot", ![q].pending = sids,
                    ![q].paths = @ \cup {path}]

\* no filtering: sitecol is None, or there is no index and no distance;
\* the source is yielded with the sites as they are
SFPass ==
    /\ \E q \in Queries :
          /\ qs[q].pc = "next"
          /\ qs[q].i <= Len(sources)
          /\ sf.sitecol.none \/ (~sf.use_rtree /\ ~PolicyTruthy(sf.integration_distance))
          /\ qs' = [qs EXCEPT ![q].i = @ + 1,
                              ![q].paths = @ \cup {"nofilter"},
                              ![q].out = Append(@, [src |-> qs[q].i,
                                                    sids |-> qs[q].sites,
                                                    seen |-> nsites[qs[q].i]])]
    /\ UNCHANGED <<sf, sf_orig, sf_unpickled, sources, sf_fail, nsites>>
    /\ UNCHANGED <<sf_box, varsBS, varsWS, varsSL, varsAD, varsFA, varsSB>>

\* the branch `if self.use_rtree`: the box and the sites of the index in it
SFIndexed ==
    /\ \E q \in Queries :
          /\ qs[q].pc = "next"
          /\ qs[q].i <= Len(sources)
          /\ ~sf.sitecol.none /\ sf.use_rtree
          /\ LET src == sources[qs[q].i]
                 box == GetAffectedBox(sf, src)
             IN  qs' = IF Raises(q, "box")
                       THEN Failed(q, "ValueError", FALSE, "rtree")
                       ELSE IF sf.idl = "absent"
                       THEN Failed(q, "AttributeError", FALSE, "rtree")
                       ELSE IF box = <<>>
                       THEN [Failed(q, "TypeError", FALSE, "rtree")
                               EXCEPT ![q].box = box, ![q].boxsrc = qs[q].i]
                       ELSE IF ~BoxValid(box)
                       THEN [Failed(q, "RTreeError", FALSE, "rtree")
                               EXCEPT ![q].box = box, ![q].boxsrc = qs[q].i]
                       ELSE [Found(q, IndexIntersection(sf.index, box), "rtree")
                               EXCEPT ![q].box = box, ![q].boxsrc = qs[q].i]
    /\ UNCHANGED <<sf, sf_orig, sf_unpickled, sources, sf_fail, nsites>>
    /\ UNCHANGED <<sf_box, varsBS, varsWS, varsSL, varsAD, varsFA, varsSB>>

\* the branch `else`: the maximum magnitude, the distance for it, and the
\* sites within that distance, the last of the three under context(src)
SFDistance ==
    /\ \E q \in Queries :
          /\ qs[q].pc = "next"
          /\ qs[q].i <= Len(sources)
          /\ ~sf.sitecol.none /\ ~sf.use_rtree
          /\ PolicyTruthy(sf.integration_distance)
          /\ LET src == sources[qs[q].i]
                 maxdist == sf.integration_distance.dm
             IN  qs' = IF Raises(q, "mag")
                       THEN Failed(q, "ValueError", FALSE, "distance")
                       ELSE IF sf.integration_distance.kind = "scalar"
                       THEN Failed(q, "TypeError", FALSE, "distance")
                       ELSE IF Raises(q, "filter")
                       THEN Context(q, "ValueError", "distance")
                       ELSE Found(q, FilterSitesByDistanceToSource(
                                        src, maxdist, sf.sitecol.pts, qs[q].sites),
                                  "distance")
    /\ UNCHANGED <<sf, sf_orig, sf_unpickled, sources, sf_fail, nsites>>
    /\ UNCHANGED <<sf_box, varsBS, varsWS, varsSL, varsAD, varsFA, varsSB>>

\* src.nsites = len(sids), src.nsites = len(s_sites)
SFAnnotate ==
    /\ \E q \in Queries :
          /\ qs[q].pc = "annot"
          /\ nsites' = [nsites EXCEPT ![qs[q].i] = Cardinality(qs[q].pending)]
          /\ qs' = [qs EXCEPT ![q].pc = "yield"]
    /\ UNCHANGED <<sf, sf_orig, sf_unpickled, sources, sf_fail>>
    /\ UNCHANGED <<sf_box, varsBS, varsWS, varsSL, varsAD, varsFA, varsSB>>

\* the yield of the source and its sites: the caller has the pair and sees
\* the nsites the source has now
SFYield ==
    /\ \E q \in Queries :
          /\ qs[q].pc = "yield"
          /\ qs' = [qs EXCEPT ![q].pc = "next",
                              ![q].i = @ + 1,
                              ![q].pending = {},
                              ![q].out = Append(@, [src |-> qs[q].i,
                                                    sids |-> qs[q].pending,
                                                    seen |-> nsites[qs[q].i]])]
    /\ UNCHANGED <<sf, sf_orig, sf_unpickled, sources, sf_fail, nsites>>
    /\ UNCHANGED <<sf_box, varsBS, varsWS, varsSL, varsAD, varsFA, varsSB>>

\* the list of sources is exhausted
SFEnd ==
    /\ \E q \in Queries :
          /\ qs[q].pc = "next"
          /\ qs[q].i > Len(sources)
          /\ qs' = [qs EXCEPT ![q].pc = "done"]
    /\ UNCHANGED <<sf, sf_orig, sf_unpickled, sources, sf_fail, nsites>>
    /\ UNCHANGED <<sf_box, varsBS, varsWS, varsSL, varsAD, varsFA, varsSB>>

\* sf.get_affected_box(src) called by itself on a filter that has a distance
\* policy, once the queries are over
SFGetAffectedBox ==
    /\ PolicyTruthy(sf.integration_distance)
    /\ \A q \in Queries : qs[q].pc \in {"done", "error", "absent"}
    /\ \E j \in 1..Len(sources) : sf_box' = GetAffectedBoxCall(sf, j)
    /\ UNCHANGED <<sf, sf_orig, sf_unpickled, sources, sf_fail, nsites, qs>>
    /\ UNCHANGED <<varsBS, varsWS, varsSL, varsAD, varsFA, varsSB>>

NextSF ==
    \/ SFPickle \/ SFCall \/ SFPass \/ SFIndexed \/ SFDistance
    \/ SFAnnotate \/ SFYield \/ SFEnd \/ SFGetAffectedBox

\* --------------------------------------------- SourceFilter: the properties
\* the sources the q-th call has yielded so far
Survivors(q) == {qs[q].out[k].src : k \in 1..Len(qs[q].out)}

\* the q-th call is over
Over(q) == qs[q].pc \in {"done", "error"}

\* a site of the index lies in a box, its edges included
SiteInBox(e, b) ==
    /\ b[1] <= e.lon /\ e.lon <= b[3]
    /\ b[2] <= e.lat /\ e.lat <= b[4]

\* the ids of the indexed sites that intersect the corrected box of source j
Hits(j) ==
    LET b == GetAffectedBox(sf, sources[j])
    IN  IF BoxValid(b) THEN {e.sid : e \in {x \in sf.index : SiteInBox(x, b)}}
        ELSE {}

\* the sources a filter without index on the same site collection and
\* distance policy lets through
DistanceSurvivors(sitecol, policy) ==
    {j \in 1..Len(sources) :
        FilterSitesByDistanceToSource(sources[j], policy.dm, sitecol.pts,
                                      AllSids(sitecol)) # {}}

\* C11: for one site collection and one distance policy, and any list of
\* sources, the sources a filter with index yields are the sources a filter
\* without index, filtering by distance, yields.
C11_IndexEquivalence ==
    (/\ qs[1].pc = "done"
     /\ sf.use_rtree
     /\ sf.integration_distance.kind = "dict")
    => Survivors(1) = DistanceSurvivors(sf.sitecol, sf.integration_distance)

\* the longitudes a site is looked for at
TestLons == {-180, -179, -178, -177, -2, -1, 0, 1, 2, 3, 177, 178, 179, 180}

\* A longitude of [0, 360) lies in the enlarged box of a source, given as
\* get_bounding_box returns it. The box runs eastwards from min_lon to
\* max_lon, across the date line when min_lon > max_lon; with min_lon < 0 <
\* max_lon it is read as the correction reads it, across the date line from
\* max_lon to min_lon + 360.
OnCylinder(raw, x) ==
    IF raw[1] < 0 /\ raw[3] > 0
    THEN raw[3] <= x /\ x <= raw[1] + FullTurn
    ELSE LET lo == raw[1] % FullTurn
             hi == raw[3] % FullTurn
         IN  IF lo <= hi THEN lo <= x /\ x <= hi ELSE x >= lo \/ x <= hi

\* a longitude lies in the longitude interval of a corrected box
InCorrected(b, x) == Len(b) = 4 /\ b[1] <= x /\ x <= b[3]

\* C12: with the date line correction on, a site longitude of the corrected
\* domain lies in the longitude interval get_affected_box returns if and only
\* if it lies in the enlarged box of the source on the cylinder, whatever the
\* signs of min_lon and max_lon.
C12_Antimeridian ==
    \A q \in Queries :
        (qs[q].boxsrc # 0 /\ sf.idl = "yes") =>
            \A lon \in TestLons :
                InCorrected(qs[q].box, lon % FullTurn)
                  <=> OnCylinder(GetBoundingBox(sources[qs[q].boxsrc],
                                                sf.integration_distance.d),
                                 lon % FullTurn)

\* C29: get_affected_box returns four values (min_lon, min_lat, max_lon,
\* max_lat) with min_lon <= max_lon for every source whose bounding box can
\* be computed, on a filter in any mode: indexed, unindexed or deserialized,
\* with the date line correction or without.
C29_BoxWellFormed ==
    (sf_box.src # 0 /\ sf_box.res # "ValueError") =>
        /\ sf_box.res = "tuple"
        /\ Len(sf_box.box) = 4
        /\ sf_box.box[1] <= sf_box.box[3]

\* C13: a filter that went through pickle has no index and a false
\* use_rtree, has the site collection and the integration distance of the
\* original, and every call made on it takes the branches without index.
C13_PickleRoundTrip ==
    sf_unpickled =>
        /\ ~sf.use_rtree
        /\ ~sf.has_index /\ sf.index = {}
        /\ sf.sitecol = sf_orig.sitecol
        /\ sf.integration_distance = sf_orig.integration_distance
        /\ \A q \in Queries : qs[q].paths \subseteq {"nofilter", "distance"}

\* a filter built with an index went through pickle and a call on the copy
\* has filtered by distance and yielded a source
C13_Witness ==
    /\ sf_unpickled
    /\ sf_orig.use_rtree /\ sf_orig.has_index
    /\ qs[1].pc = "done"
    /\ "distance" \in qs[1].paths
    /\ Len(qs[1].out) >= 1

\* C14: in every mode, an exception raised while a source is filtered
\* reaches the caller with a message that names the source.
C14_ErrorsAnnotated ==
    \A q \in Queries :
        qs[q].pc = "error" => (qs[q].err.annotated /\ qs[q].err.src = qs[q].i)

\* the sources the q-th call is through with
Passed(q) == 1..(qs[q].i - 1)

\* the sources of the pairs a call has yielded come in the order of the list
\* of sources, each once
InInputOrder(q) ==
    \A k, l \in 1..Len(qs[q].out) :
        k < l => qs[q].out[k].src < qs[q].out[l].src

NoFiltering ==
    sf.sitecol.none \/ (~sf.use_rtree /\ ~PolicyTruthy(sf.integration_distance))

\* the sites the q-th call pairs source j with when no other call runs
Alone(q, j) ==
    IF NoFiltering THEN qs[q].sites
    ELSE IF sf.use_rtree THEN Hits(j)
    ELSE FilterSitesByDistanceToSource(sources[j], sf.integration_distance.dm,
                                       sf.sitecol.pts, qs[q].sites)

\* C16: no call changes the filter; however two calls on one filter
\* interleave, each yields the pairs it yields when run alone; and every
\* source a caller receives has, when received, an nsites equal to the number
\* of sites it is paired with.
C16_ConcurrentQueries ==
    /\ sf = IF sf_unpickled THEN SetState(GetState(sf_orig)) ELSE sf_orig
    /\ \A q \in Queries :
          /\ Survivors(q) = {j \in Passed(q) : NoFiltering \/ Alone(q, j) # {}}
          /\ InInputOrder(q)
          /\ \A k \in 1..Len(qs[q].out) :
                /\ qs[q].out[k].sids = Alone(q, qs[q].out[k].src)
                /\ ~NoFiltering =>
                      qs[q].out[k].seen = Cardinality(qs[q].out[k].sids)

\* ------------------------------------------------------------- fast_agg
MaxFALen == 3
MaxBucket == 2
MaxValue == 2
\* the number of columns of a two-dimensional array of values
Cols == 2

\* An array of values is its rows: a one-dimensional array (flat) has rows of
\* one number, an array of shape (N, Cols) rows of Cols numbers.
FAArrays ==
    UNION {[none : {FALSE}, flat : {TRUE}, v : [1..n -> [1..1 -> 0..MaxValue]]]
             : n \in 0..MaxFALen}
    \cup UNION {[none : {FALSE}, flat : {FALSE}, v : [1..n -> [1..Cols -> 0..1]]]
             : n \in 0..MaxFALen}

\* values=None
FANone == [none |-> TRUE, flat |-> TRUE, v |-> <<>>]

\* numpy.ones_like(indices)
OnesLike(x) == [none |-> FALSE, flat |-> TRUE, v |-> [i \in 1..Len(x) |-> <<1>>]]

RECURSIVE BinFold(_, _, _)
\* the loop of numpy.bincount: out[x[i]] += weights[i] for each i in turn;
\* bucket m is entry m + 1 of the sequence
BinFold(x, w, bins) ==
    IF x = <<>> THEN bins
    ELSE BinFold(Tail(x), Tail(w),
                 [bins EXCEPT ![Head(x) + 1] = bins[Head(x) + 1] + Head(w)])

\* numpy.bincount counting the occurrences, whatever the weights
BincountUnweighted(x, w) ==
    BinFold(x, [i \in 1..Len(x) |-> 1],
            [m \in 1..(MaxOf({x[i] : i \in 1..Len(x)}) + 1) |-> 0])

\* numpy.bincount(x, weights) for a non-empty x: max(x) + 1 buckets
Bincount(x, w) ==
    BinFold(x, w, [m \in 1..(MaxOf({x[i] : i \in 1..Len(x)}) + 1) |-> 0])

\* values[:, c], the c-th column
Column(values, c) == [i \in 1..Len(values.v) |-> values.v[i][c]]

\* the local variable values of fast_agg after `if values is None`
FAValues == IF fa_values.none THEN OnesLike(fa_indices) ELSE fa_values

\* shp = values.shape[1:], as the number of entries of multi_index(shp, 0)
FAShp(values) == IF values.flat THEN 0 ELSE Cols

InitFA ==
    /\ fa_indices \in UNION {[1..n -> 0..MaxBucket] : n \in 1..MaxFALen}
    /\ fa_values \in {FANone} \cup FAArrays
    /\ fa_pc = "call"
    /\ fa_mi = 0
    /\ fa_res = <<>>

\* fast_agg(indices, values) up to the loop: the default for values, the
\* test of the lengths, and for a one-dimensional array the bincount returned
FACall ==
    /\ fa_pc = "call"
    /\ LET values == FAValues
           N == Len(values.v)
       IN  IF Len(fa_indices) # N
           THEN fa_pc' = "error" /\ UNCHANGED <<fa_mi, fa_res>>
           ELSE IF FAShp(values) = 0
           THEN /\ fa_res' = [m \in 1..Len(Bincount(fa_indices, Column(values, 1)))
                                |-> <<Bincount(fa_indices, Column(values, 1))[m]>>]
                /\ fa_pc' = "done"
                /\ UNCHANGED fa_mi
           ELSE LET M == MaxOf({fa_indices[i] : i \in 1..Len(fa_indices)}) + 1
                IN  /\ fa_res' = [m \in 1..M |-> [c \in 1..Cols |-> 0]]
                    /\ fa_mi' = 1
                    /\ fa_pc' = "loop"
    /\ UNCHANGED <<fa_indices, fa_values>>
    /\ UNCHANGED <<varsBS, varsWS, varsSL, varsAD, varsSF, varsSB>>

\* for mi in multi_index(shp, axis): res[mi] = numpy.bincount(indices, values[mi])
FALoop ==
    /\ fa_pc = "loop" /\ fa_mi <= FAShp(FAValues)
    /\ LET col == Bincount(fa_indices, Column(FAValues, fa_mi))
       IN  fa_res' = [m \in 1..Len(fa_res) |-> [fa_res[m] EXCEPT ![fa_mi] = col[m]]]
    /\ fa_mi' = fa_mi + 1
    /\ UNCHANGED <<fa_indices, fa_values, fa_pc>>
    /\ UNCHANGED <<varsBS, varsWS, varsSL, varsAD, varsSF, varsSB>>

\* return res
FAReturn ==
    /\ fa_pc = "loop" /\ fa_mi > FAShp(FAValues)
    /\ fa_pc' = "done"
    /\ UNCHANGED <<fa_indices, fa_values, fa_mi, fa_res>>
    /\ UNCHANGED <<varsBS, varsWS, varsSL, varsAD, varsSF, varsSB>>

NextFA == FACall \/ FALoop \/ FAReturn

\* the sum of the c-th components of the values at the positions of bucket m,
\* the values being all 1 when none are given
BucketSum(m, c) ==
    SumSeq([i \in 1..Len(fa_indices) |->
              IF fa_indices[i] # m THEN 0
              ELSE IF fa_values.none THEN 1 ELSE fa_values.v[i][c]])

\* the positions whose index is m
Positions(m) == {i \in 1..Len(fa_indices) : fa_indices[i] = m}

\* C21: fast_agg fails with a value error when indices and values differ in
\* length; otherwise entry m of the result, for every m in 0..max(indices),
\* is the sum of the values at the positions whose index is m, 0 for a
\* bucket without positions, and the number of those positions when no
\* values are given.
C21_FastAgg ==
    LET differ == ~fa_values.none /\ Len(fa_values.v) # Len(fa_indices)
        M == MaxOf({fa_indices[i] : i \in 1..Len(fa_indices)}) + 1
    IN  /\ (fa_pc # "call" /\ differ) => (fa_pc = "error" /\ fa_res = <<>>)
        /\ fa_pc = "error" => differ
        /\ fa_pc = "done" =>
              /\ Len(fa_res) = M
              /\ \A m \in 0..(M - 1) : \A c \in 1..Len(fa_res[m + 1]) :
                    /\ fa_res[m + 1][c] = BucketSum(m, c)
                    /\ Positions(m) = {} => fa_res[m + 1][c] = 0
                    /\ fa_values.none => fa_res[m + 1][c] = Cardinality(Positions(m))

\* a result with a bucket without positions and a bucket of two positions
\* whose values are not both 1
C21_Witness ==
    /\ fa_pc = "done" /\ ~fa_values.none
    /\ \E m \in 0..MaxBucket : m < Len(fa_res) /\ Positions(m) = {}
    /\ \E m \in 0..MaxBucket :
          /\ Cardinality(Positions(m)) = 2
          /\ \E i \in Positions(m) : fa_values.v[i][1] # 1

\* --------------------------------------------- groupby, split_in_blocks
MaxSBLen == 4
MaxSBW == 2
MaxHint == 3

\* The objects grouped or split: an object is told apart by its position in
\* the caller's list, and has a weight and a key.
SBObjects == [w : 0..MaxSBW, k : {"k1", "k2"}]

\* the order of the keys, which are strings
KeyRank(k) == CASE k = "Unspecified" -> 0 [] k = "k1" -> 1 [] k = "k2" -> 2

\* a < b for two tuples of numbers of the same length
LexLess(a, b) ==
    \E i \in 1..Len(a) : a[i] < b[i] /\ \A j \in 1..(i - 1) : a[j] = b[j]

RECURSIVE SortFold(_, _, _)
\* the positions ps put one by one into the sorted list done, each after the
\* positions whose sort key is not greater: a stable sort
SortFold(ps, kf, done) ==
    IF ps = <<>> THEN done
    ELSE LET p == Head(ps)
             n == Cardinality({i \in 1..Len(done) : ~LexLess(kf[p], kf[done[i]])})
         IN  SortFold(Tail(ps), kf,
                      SubSeq(done, 1, n) \o <<p>> \o SubSeq(done, n + 1, Len(done)))

\* the list left in the order it came
SortedNot(ps, kf) == ps

\* sorted(ps, key=kf), which returns a new list
Sorted(ps, kf) == SortFold(ps, kf, <<>>)

RECURSIVE GroupRuns(_, _, _)
\* itertools.groupby(ps, key): the runs of consecutive positions of one key
GroupRuns(ps, seq, runs) ==
    IF ps = <<>> THEN runs
    ELSE LET p == Head(ps)
             n == Len(runs)
         IN  IF n > 0 /\ runs[n].k = seq[p].k
             THEN GroupRuns(Tail(ps), seq,
                            [runs EXCEPT ![n].seq = Append(runs[n].seq, p)])
             ELSE GroupRuns(Tail(ps), seq,
                            Append(runs, [k |-> seq[p].k, seq |-> <<p>>]))

RECURSIVE DictFromRuns(_, _)
\* {k: list(group) for k, group in kgroups}: a key met again replaces the
\* value of its entry, which keeps its place
DictFromRuns(runs, d) ==
    IF runs = <<>> THEN d
    ELSE LET r == Head(runs)
         IN  IF \E i \in 1..Len(d) : d[i].k = r.k
             THEN DictFromRuns(Tail(runs),
                               [i \in 1..Len(d) |-> IF d[i].k = r.k THEN r ELSE d[i]])
             ELSE DictFromRuns(Tail(runs), Append(d, r))

\* groupby(objects, key): the entries of the dict returned, in order
GroupBy(seq) ==
    LET ps == [i \in 1..Len(seq) |-> i]
        kf == [i \in 1..Len(seq) |-> <<KeyRank(seq[i].k)>>]
    IN  DictFromRuns(GroupRuns(Sorted(ps, kf), seq, <<>>), <<>>)

\* hint in (0, 1), with 0 alone
NoSplitZeroOnly(hint) == hint = 0

\* hint in (0, 1)
NoSplit(hint) == hint \in {0, 1}

\* key(item) in split_in_blocks: nokey returns 'Unspecified'
KeyOf(i) == IF sb_key THEN sb_seq[i].k ELSE "Unspecified"

\* nothing returned yet
NoResult == [kind |-> "none", blocks |-> <<>>]

InitSB ==
    /\ sb_fn \in {"groupby", "split_in_blocks"}
    /\ sb_seq \in UNION {[1..n -> SBObjects] : n \in 0..MaxSBLen}
    /\ sb_orig = sb_seq
    /\ sb_hint \in (-1)..MaxHint
    /\ sb_key \in BOOLEAN
    /\ sb_fn = "groupby" => (sb_key /\ sb_hint = 0)
    /\ ~sb_key => \A i \in 1..Len(sb_seq) : sb_seq[i].k = "k1"
    /\ sb_pc = "call"
    /\ sb_res = NoResult
    /\ sb_sorted = <<>>
    /\ sb_passes = <<>>

\* groupby(objects, key)
SBGroupby ==
    /\ sb_pc = "call" /\ sb_fn = "groupby"
    /\ sb_res' = [kind |-> "dict", blocks |-> GroupBy(sb_seq)]
    /\ sb_pc' = "returned"
    /\ UNCHANGED <<sb_fn, sb_seq, sb_orig, sb_hint, sb_key, sb_sorted, sb_passes>>
    /\ UNCHANGED <<varsBS, varsWS, varsSL, varsAD, varsSF, varsFA>>

\* split_in_blocks(sequence, hint, weight, key) for a list: the two returns
\* for hint in (0, 1), else the sort, the two asserts and the generator of
\* block_splitter, whose body has not started
SBSplitInBlocks ==
    /\ sb_pc = "call" /\ sb_fn = "split_in_blocks"
    /\ IF NoSplit(sb_hint) /\ ~sb_key
       THEN /\ sb_res' = [kind |-> "list",
                          blocks |-> <<[k |-> "", seq |-> [i \in 1..Len(sb_seq) |-> i]]>>]
            /\ sb_pc' = "returned"
            /\ UNCHANGED <<sb_sorted, varsBS>>
       ELSE IF NoSplit(sb_hint)
       THEN /\ sb_res' = [kind |-> "list",
                          blocks |-> [n \in 1..Len(GroupBy(sb_seq)) |->
                                        [k |-> "", seq |-> GroupBy(sb_seq)[n].seq]]]
            /\ sb_pc' = "returned"
            /\ UNCHANGED <<sb_sorted, varsBS>>
       ELSE LET ps == [i \in 1..Len(sb_seq) |-> i]
                kf == [i \in 1..Len(sb_seq) |-> <<KeyRank(KeyOf(i)), sb_seq[i].w>>]
                its == Sorted(ps, kf)
                total_weight == SumSeq([i \in 1..Len(its) |-> sb_seq[its[i]].w])
            IN  /\ sb_sorted' = its
                /\ IF sb_hint <= 0 \/ Len(its) = 0
                   THEN /\ sb_pc' = "error"
                        /\ UNCHANGED <<sb_res, varsBS>>
                   ELSE /\ sb_pc' = "returned"
                        /\ sb_res' = [kind |-> "generator", blocks |-> <<>>]
                        /\ items' = [i \in 1..Len(its) |->
                                       [w |-> sb_seq[its[i]].w, k |-> KeyOf(its[i])]]
                        /\ max_weight' = CeilDiv(total_weight, sb_hint)
                        /\ pc' = "created"
                        /\ UNCHANGED <<pos, ws, prev_key, out>>
    /\ UNCHANGED <<sb_fn, sb_seq, sb_orig, sb_hint, sb_key, sb_passes>>
    /\ UNCHANGED <<varsWS, varsSL, varsAD, varsSF, varsFA>>

\* a generator that has run to its end, iterated again from its start
ExhaustedRestarts(chunks) == chunks

\* a generator that has run to its end: the next next() finds the body over
\* and raises StopIteration, so a for loop over it gets nothing
Exhausted(chunks) == <<>>

\* for x in result, run to the end, on a list or a dict
SBIterate ==
    /\ sb_pc = "returned" /\ sb_res.kind \in {"list", "dict"}
    /\ Len(sb_passes) < 2
    /\ sb_passes' = Append(sb_passes, sb_res.blocks)
    /\ UNCHANGED <<sb_fn, sb_seq, sb_orig, sb_hint, sb_key, sb_pc, sb_res, sb_sorted>>
    /\ UNCHANGED <<varsBS, varsWS, varsSL, varsAD, varsSF, varsFA>>

\* for x in result, on the generator that was consumed to its end
SBIterateAgain ==
    /\ sb_pc = "returned" /\ sb_res.kind = "generator" /\ pc = "done"
    /\ Len(sb_passes) < 1
    /\ sb_passes' = Append(sb_passes, Exhausted(out))
    /\ UNCHANGED <<sb_fn, sb_seq, sb_orig, sb_hint, sb_key, sb_pc, sb_res, sb_sorted>>
    /\ UNCHANGED <<varsBS, varsWS, varsSL, varsAD, varsSF, varsFA>>

NextSB ==
    \/ SBGroupby \/ SBSplitInBlocks \/ BSEnter \/ BSItem \/ BSEnd
    \/ SBIterate \/ SBIterateAgain

\* the positions a block holds
BlockSet(b) == {b.seq[j] : j \in 1..Len(b.seq)}

\* the positions of a block are in input order, none twice
InInputOrderBlock(b) == \A i, j \in 1..Len(b.seq) : i < j => b.seq[i] < b.seq[j]

\* the keys of the objects passed
KeysOf(seq) == {seq[i].k : i \in 1..Len(seq)}

\* C22: groupby returns one entry per distinct key; the group of a key holds
\* the objects of that key, each once, in input order; the entries are in
\* ascending key order; the caller's list is left as it was.
C22_Groupby ==
    (sb_fn = "groupby" /\ sb_pc = "returned") =>
        LET d == sb_res.blocks
        IN  /\ {d[a].k : a \in 1..Len(d)} = KeysOf(sb_orig)
            /\ \A a, b \in 1..Len(d) : a < b => KeyRank(d[a].k) < KeyRank(d[b].k)
            /\ \A a \in 1..Len(d) :
                  /\ BlockSet(d[a]) = {i \in 1..Len(sb_orig) : sb_orig[i].k = d[a].k}
                  /\ InInputOrderBlock(d[a])
            /\ sb_seq = sb_orig

\* a dict of two entries returned for a list in which the objects of the
\* greater key come first and last
C22_Witness ==
    /\ sb_fn = "groupby" /\ sb_pc = "returned"
    /\ Len(sb_orig) = 3
    /\ sb_orig[1].k = "k2" /\ sb_orig[2].k = "k1" /\ sb_orig[3].k = "k2"
    /\ Len(sb_res.blocks) = 2

\* the generator path of split_in_blocks: block_splitter on the sorted items
GeneratorPath == sb_fn = "split_in_blocks" /\ sb_hint \notin {0, 1}

\* what the caller's second iteration of the result produced, if it was made
HasSecond ==
    IF sb_res.kind = "generator" THEN Len(sb_passes) >= 1 ELSE Len(sb_passes) >= 2

Second == IF sb_res.kind = "generator" THEN sb_passes[1] ELSE sb_passes[2]

\* C23: the result of block_splitter, of split_in_blocks on every path and
\* of groupby cannot be restarted: once consumed to the end, iterating it
\* again yields nothing.
C23_NonRestartable == HasSecond => Second = <<>>

\* C23 amended: the generator of block_splitter, which split_in_blocks
\* returns for a hint other than 0 and 1, yields nothing when iterated again
\* after its end; the list split_in_blocks returns for hint 0 or 1 and the
\* dict groupby returns yield the same elements again.
C23_GeneratorOnly ==
    HasSecond =>
        IF GeneratorPath
        THEN sb_res.kind = "generator" /\ Second = <<>>
        ELSE sb_res.kind \in {"list", "dict"} /\ Second = sb_passes[1]

\* a generator that yielded two chunks, iterated again after its end
C23_Witness ==
    /\ HasSecond /\ sb_res.kind = "generator"
    /\ Len(out) >= 2

\* every position of the caller's list is in exactly one block
EachOnce(blocks) ==
    /\ \A i \in 1..Len(sb_orig) : \E n \in 1..Len(blocks) : i \in BlockSet(blocks[n])
    /\ SumSeq([n \in 1..Len(blocks) |-> Len(blocks[n].seq)]) = Len(sb_orig)

\* C24: for hint 0 or 1 split_in_blocks does not balance by weight: without
\* a key it returns one block, the whole sequence; with a key one block per
\* distinct key, holding the items of that key; the blocks hold every item
\* exactly once.
C24_NoSplit ==
    (sb_fn = "split_in_blocks" /\ sb_hint \in {0, 1} /\ sb_pc # "call") =>
        LET blocks == sb_res.blocks
        IN  /\ sb_pc = "returned" /\ sb_res.kind = "list"
            /\ ~sb_key =>
                  /\ Len(blocks) = 1
                  /\ blocks[1].seq = [i \in 1..Len(sb_orig) |-> i]
            /\ sb_key =>
                  /\ Len(blocks) = Cardinality(KeysOf(sb_orig))
                  /\ \A n \in 1..Len(blocks) : \E k \in KeysOf(sb_orig) :
                        BlockSet(blocks[n]) =
                            {i \in 1..Len(sb_orig) : sb_orig[i].k = k}
            /\ EachOnce(blocks)

\* hint 1 with a key: two blocks for three items of two keys and of total
\* weight above 1
C24_Witness ==
    /\ sb_fn = "split_in_blocks" /\ sb_hint = 1 /\ sb_key
    /\ sb_pc = "returned"
    /\ Len(sb_orig) = 3 /\ Len(sb_res.blocks) = 2
    /\ SumSeq([i \in 1..Len(sb_orig) |-> sb_orig[i].w]) > 1

\* the total weight of the caller's list
TotalWeight == SumSeq([i \in 1..Len(sb_orig) |-> sb_orig[i].w])

\* all the items have one key
OneKey == \A i, j \in 1..Len(sb_orig) : KeyOf(i) = KeyOf(j)

\* split_in_blocks ran block_splitter on the items sorted by (key, weight),
\* with max_weight the ceiling of total_weight / hint
SortedAndCeil ==
    /\ sb_pc = "returned" /\ sb_res.kind = "generator"
    /\ {sb_sorted[i] : i \in 1..Len(sb_sorted)} = 1..Len(sb_orig)
    /\ Len(sb_sorted) = Len(sb_orig)
    /\ \A i \in 1..Len(items) :
          items[i] = [w |-> sb_orig[sb_sorted[i]].w, k |-> KeyOf(sb_sorted[i])]
    /\ \A i, j \in 1..Len(items) : i < j =>
          \/ KeyRank(items[i].k) < KeyRank(items[j].k)
          \/ items[i].k = items[j].k /\ items[i].w <= items[j].w
    /\ max_weight * sb_hint >= TotalWeight
    /\ (max_weight - 1) * sb_hint < TotalWeight

\* the case of C26: a hint of 2 or more, a list with items, of positive
\* total weight
Balancing ==
    /\ sb_fn = "split_in_blocks" /\ sb_pc # "call"
    /\ sb_hint >= 2 /\ Len(sb_orig) > 0 /\ TotalWeight > 0

vars == <<varsBS, varsWS, varsSL, varsAD, varsSF, varsFA, varsSB>>

\* block_splitter alone; the other components stay as constructed
IdleBS ==
    /\ items = <<>> /\ max_weight = 1 /\ pc = "call" /\ pos = 1
    /\ ws = WSEmpty /\ prev_key = "Unspecified" /\ out = <<>>

IdleWS == wsx = WSEmpty /\ wsops = 0 /\ ws_cmp = NoCmp

IdleSL ==
    /\ sl_fn = "split_in_slices" /\ sl_lo = 0 /\ sl_hi = 1 /\ sl_k = 1
    /\ blocksize = 0 /\ start = 0 /\ slices = <<>> /\ sl_pc = "call"

IdleAD ==
    /\ acc = [d |-> ADEmptyDict, accum |-> ADNone] /\ other = ADScalar(1)
    /\ res = ADNoRes /\ heap = <<>> /\ ad_op = [name |-> "new", key |-> "k1"]
    /\ ad_err = "" /\ ad_prev = [acc |-> acc, heap |-> heap] /\ ad_n = 0

IdleSF ==
    /\ sf = SourceFilterInit(NoSitecol, [kind |-> "none", d |-> 0, dm |-> 0], FALSE)
    /\ sf_orig = sf /\ sf_unpickled = FALSE /\ sources = <<>>
    /\ sf_fail = "none" /\ nsites = <<>>
    /\ qs = [q \in Queries |-> NoQuery]
    /\ sf_box = NoBox

IdleFA ==
    /\ fa_indices = <<>> /\ fa_values = FANone
    /\ fa_pc = "call" /\ fa_mi = 0 /\ fa_res = <<>>

IdleSB ==
    /\ sb_fn = "groupby" /\ sb_seq = <<>> /\ sb_orig = <<>> /\ sb_hint = 0
    /\ sb_key = TRUE /\ sb_pc = "call" /\ sb_res = NoResult
    /\ sb_sorted = <<>> /\ sb_passes = <<>>

Init == InitBS /\ IdleWS /\ IdleSL /\ IdleAD /\ IdleSF /\ IdleFA /\ IdleSB

Next == NextBS

Spec == Init /\ [][Next]_vars

\* WeightedSequence as a container
InitWSOnly == InitWS /\ IdleBS /\ IdleSL /\ IdleAD /\ IdleSF /\ IdleFA /\ IdleSB

SpecWS == InitWSOnly /\ [][NextWS]_vars

\* the slice functions; a call that has started runs to its end
InitSLOnly == InitSL /\ IdleBS /\ IdleWS /\ IdleAD /\ IdleSF /\ IdleFA /\ IdleSB

SpecSL == InitSLOnly /\ [][NextSL]_vars /\ WF_vars(NextSL)

\* AccumDict
InitADOnly == InitAD /\ IdleBS /\ IdleWS /\ IdleSL /\ IdleSF /\ IdleFA /\ IdleSB

SpecAD == InitADOnly /\ [][NextAD]_vars

\* SourceFilter
InitSFOnly == InitSF /\ IdleBS /\ IdleWS /\ IdleSL /\ IdleAD /\ IdleFA /\ IdleSB

SpecSF == InitSFOnly /\ [][NextSF]_vars

\* fast_agg alone
InitFAOnly == InitFA /\ IdleBS /\ IdleWS /\ IdleSL /\ IdleAD /\ IdleSF /\ IdleSB

SpecFA == InitFAOnly /\ [][NextFA]_vars

\* groupby and split_in_blocks, and the caller iterating what they return
InitSBOnly == InitSB /\ IdleBS /\ IdleWS /\ IdleSL /\ IdleAD /\ IdleSF /\ IdleFA

SpecSB == InitSBOnly /\ [][NextSB]_vars

====
